---- MODULE Spec2Model ----
(***************************************************************************)
(* A model of the effect-tree library: the one-level tree shape TreeF, the *)
(* fixed recursive Tree, the fold runners, the ordered effectful mapping   *)
(* and traversal, and the algebraic instances built on top of them.        *)
(*                                                                         *)
(* A tree is the record [unfixed |-> treeF]; a treeF is [node |-> a] for a *)
(* leaf and [node |-> a, forest |-> <<c1, ..., cn>>] for a branch: as in   *)
(* the source, the presence of the field `forest` is the discriminant.     *)
(*                                                                         *)
(* An Effect is run one step at a time: `stack` holds the continuation of  *)
(* the running effect (the suspended effects still to be executed, first   *)
(* to run at the head), `vals` the values of the effects that succeeded    *)
(* and are waiting to be combined, `called` the one-level functions that   *)
(* have been executed so far (node path and outcome), `exit` the state of  *)
(* the run and `result` what the caller of the run receives.               *)
(***************************************************************************)
EXTENDS Integers, Sequences, FiniteSets, TLC

VARIABLES op, self, arg, stack, vals, called, exit, result

vars == <<op, self, arg, stack, vals, called, exit, result>>

(***************************************************************************)
(* Bounds of the model.                                                    *)
(***************************************************************************)
\* Largest number of nodes of a tree given to a stepwise run.
MaxNodes == 4

\* Largest number of nodes of a tree given to a function applied in one
\* step.
MaxPureNodes == 3

\* The node values: the instantiation of the type parameter A.
Values == {0, 1}

(***************************************************************************)
(* TreeF: the one-level tree shape.                                        *)
(***************************************************************************)
leafF(value) == [node |-> value]

branchF(value, forest) == [node |-> value, forest |-> forest]

isNonEmptyReadonlyArray(xs) == Len(xs) > 0

treeF(value, forest) ==
  IF isNonEmptyReadonlyArray(forest) THEN branchF(value, forest) ELSE leafF(value)

isLeafF(treeFSelf) == ~("forest" \in DOMAIN treeFSelf)

isBranchF(treeFSelf) == ~isLeafF(treeFSelf)

getValueF(treeFSelf) == treeFSelf.node

getForestF(treeFSelf) == IF isBranchF(treeFSelf) THEN treeFSelf.forest ELSE <<>>

getBranchForestF(treeFSelf) == treeFSelf.forest

destructF(treeFSelf) ==
  IF isBranchF(treeFSelf)
    THEN <<treeFSelf.node, treeFSelf.forest>>
    ELSE <<treeFSelf.node, <<>>>>

lengthF(treeFSelf) == IF isBranchF(treeFSelf) THEN Len(treeFSelf.forest) ELSE 0

(***************************************************************************)
(* Tree: the fixed recursive tree.                                         *)
(***************************************************************************)
fixTree(unfixed) == [unfixed |-> unfixed]

unfixTree(fixed) == fixed.unfixed

leaf(value) == fixTree(leafF(value))

branch(value, forest) == fixTree(branchF(value, forest))

\* As tree below, but a branch is built whatever the forest.
treeAlwaysBranch(value, forest) == branch(value, forest)

tree(value, forest) ==
  IF isNonEmptyReadonlyArray(forest) THEN branch(value, forest) ELSE leaf(value)

isLeaf(t) == isLeafF(t.unfixed)

isBranch(t) == ~isLeaf(t)

getValue(t) == getValueF(unfixTree(t))

getBranchForest(t) == getBranchForestF(unfixTree(t))

destruct(t) == destructF(unfixTree(t))

(***************************************************************************)
(* The trees the runs are given: every tree over the values V with n nodes *)
(* (ForestsOfSize: every non-empty forest whose trees total m nodes).      *)
(***************************************************************************)
RECURSIVE TreesOfSize(_, _), ForestsOfSize(_, _)
TreesOfSize(V, n) ==
  IF n = 1
    THEN {leaf(v) : v \in V}
    ELSE {branch(v, f) : v \in V, f \in ForestsOfSize(V, n - 1)}

ForestsOfSize(V, m) ==
  UNION {{<<t>> \o r : t \in TreesOfSize(V, k),
                      r \in (IF k = m THEN {<<>>} ELSE ForestsOfSize(V, m - k))}
         : k \in 1..m}

TreesUpTo(V, n) == UNION {TreesOfSize(V, k) : k \in 1..n}

Trees == TreesUpTo(Values, MaxNodes)

(***************************************************************************)
(* Positions of a tree: a node is named by the path of 1-based child       *)
(* indexes that leads to it from the root, the root by the empty path.     *)
(***************************************************************************)
RECURSIVE SubtreeAt(_, _)
SubtreeAt(t, p) ==
  IF p = <<>> THEN t ELSE SubtreeAt(getBranchForest(t)[Head(p)], Tail(p))

RECURSIVE Positions(_)
Positions(t) ==
  IF isLeaf(t)
    THEN {<<>>}
    ELSE {<<>>} \cup UNION {{<<i>> \o p : p \in Positions(getBranchForest(t)[i])}
                            : i \in DOMAIN getBranchForest(t)}

NodesOf(t) == Cardinality(Positions(t))

\* p names a proper ancestor of the node q names.
IsProperPrefix(p, q) ==
  /\ Len(p) < Len(q)
  /\ \A i \in 1..Len(p) : p[i] = q[i]

\* p lies in the subtree of an earlier sibling than the one q lies in.
LeftOf(p, q) ==
  \E i \in 1..Len(p) :
    /\ i <= Len(q)
    /\ p[i] < q[i]
    /\ \A j \in 1..(i - 1) : p[j] = q[j]

CalledPaths == {called[i].path : i \in DOMAIN called}

(***************************************************************************)
(* Effect: an effect that has been executed either succeeded with a value  *)
(* or failed with an error.                                                *)
(***************************************************************************)
succeed(value) == [tag |-> "Success", value |-> value]

fail(error) == [tag |-> "Failure", error |-> error]

isSuccess(e) == e.tag = "Success"

\* The last n values of a sequence, in order: the results of the n
\* children that were run, left to right, just before their parent.
LastN(xs, n) == SubSeq(xs, Len(xs) - n + 1, Len(xs))

DropLastN(xs, n) == SubSeq(xs, 1, Len(xs) - n)

(***************************************************************************)
(* Counting folds.                                                         *)
(***************************************************************************)
RECURSIVE sumAll(_)
sumAll(xs) == IF xs = <<>> THEN 0 ELSE Head(xs) + sumAll(Tail(xs))

RECURSIVE maxAll(_)
maxAll(xs) ==
  IF Len(xs) = 1
    THEN Head(xs)
    ELSE LET m == maxAll(Tail(xs)) IN IF Head(xs) >= m THEN Head(xs) ELSE m

\* As descendantCountFold below, but a branch does not count itself.
descendantCountFoldChildrenOnly(treeFSelf) ==
  IF isBranchF(treeFSelf) THEN sumAll(treeFSelf.forest) ELSE 1

descendantCountFold(treeFSelf) ==
  IF isBranchF(treeFSelf) THEN sumAll(treeFSelf.forest) + 1 ELSE 1

maximumHeightFold(treeFSelf) ==
  IF isBranchF(treeFSelf) THEN maxAll(treeFSelf.forest) + 1 ELSE 1

maximumDegreeFold(treeFSelf) ==
  IF isBranchF(treeFSelf)
    THEN maxAll(<<Len(treeFSelf.forest)>> \o treeFSelf.forest)
    ELSE 0

nodeCountAtLeastFoldStrict(atLeast, treeFSelf) ==
  LET nodeCount == descendantCountFold(treeFSelf)
  IN  IF nodeCount > atLeast THEN fail(<<>>) ELSE succeed(nodeCount)

nodeCountAtLeastFold(atLeast, treeFSelf) ==
  LET nodeCount == descendantCountFold(treeFSelf)
  IN  IF nodeCount >= atLeast THEN fail(<<>>) ELSE succeed(nodeCount)

\* Effect.match({onFailure: constTrue, onSuccess: constFalse}) of the caller.
nodeCountAtLeastSwapped(exitOfRun) == exitOfRun = "success"

nodeCountAtLeast(exitOfRun) == exitOfRun = "failure"

(***************************************************************************)
(* The fold runners treeCata and treeCataEffect, one step at a time.       *)
(***************************************************************************)
TreeCataOps == {"nodeCount", "maximumNodeHeight", "maximumNodeDegree"}

TreeCataEffectOps == {"nodeCountAtLeast"}

CataOps == TreeCataOps \cup TreeCataEffectOps

\* The thresholds given to nodeCountAtLeast.
AtLeasts == (-1)..(MaxNodes + 1)

\* The one-level folder each operation hands to its runner.
Folder(treeFSelf) ==
  CASE op = "nodeCount" -> succeed(descendantCountFold(treeFSelf))
    [] op = "maximumNodeHeight" -> succeed(maximumHeightFold(treeFSelf))
    [] op = "maximumNodeDegree" -> succeed(maximumDegreeFold(treeFSelf))
    [] op = "nodeCountAtLeast" -> nodeCountAtLeastFold(arg, treeFSelf)

FoldFrame(p) == [k |-> "fold", path |-> p]

CombineFrame(p) == [k |-> "combine", path |-> p]

\* The folder has been executed at the node the head frame names, with the
\* carrier `carried` (the folded children) and the outcome e.
FolderExecuted(p, nChildren, e) ==
  /\ called' = Append(called, [path |-> p, ok |-> isSuccess(e)])
  /\ IF isSuccess(e)
       THEN /\ stack' = Tail(stack)
            /\ vals' = Append(DropLastN(vals, nChildren), e.value)
            /\ exit' = exit
       ELSE /\ stack' = <<>>
            /\ vals' = <<>>
            /\ exit' = "failure"
  /\ UNCHANGED <<op, self, arg, result>>

\* A leaf is folded: the folder is executed on its leaf shape.
CataLeaf ==
  /\ op \in CataOps
  /\ exit = "running"
  /\ stack # <<>>
  /\ Head(stack).k = "fold"
  /\ LET p == Head(stack).path
         t == SubtreeAt(self, p)
     IN  /\ isLeaf(t)
         /\ FolderExecuted(p, 0, Folder(leafF(getValue(t))))

\* As CataBranch below, but the children are folded right to left.
CataBranchRightToLeft ==
  /\ op \in CataOps
  /\ exit = "running"
  /\ stack # <<>>
  /\ Head(stack).k = "fold"
  /\ LET p == Head(stack).path
         t == SubtreeAt(self, p)
         n == Len(getBranchForest(t))
     IN  /\ isBranch(t)
         /\ stack' = [i \in 1..n |-> FoldFrame(Append(p, n + 1 - i))]
                       \o <<CombineFrame(p)>> \o Tail(stack)
  /\ UNCHANGED <<op, self, arg, vals, called, exit, result>>

\* A branch is entered: its children are folded first, left to right, and
\* the folder is executed at the branch after them.
CataBranch ==
  /\ op \in CataOps
  /\ exit = "running"
  /\ stack # <<>>
  /\ Head(stack).k = "fold"
  /\ LET p == Head(stack).path
         t == SubtreeAt(self, p)
     IN  /\ isBranch(t)
         /\ stack' = [i \in DOMAIN getBranchForest(t) |-> FoldFrame(Append(p, i))]
                       \o <<CombineFrame(p)>> \o Tail(stack)
  /\ UNCHANGED <<op, self, arg, vals, called, exit, result>>

\* The children of a branch are folded: the folder is executed on the
\* branch shape that carries their results.
CataCombine ==
  /\ op \in CataOps
  /\ exit = "running"
  /\ stack # <<>>
  /\ Head(stack).k = "combine"
  /\ LET p == Head(stack).path
         t == SubtreeAt(self, p)
         n == Len(getBranchForest(t))
     IN  FolderExecuted(p, n, Folder(branchF(getValue(t), LastN(vals, n))))

\* Nothing is left to run: the run succeeds with the fold of the root.
CataSucceed ==
  /\ op \in CataOps
  /\ exit = "running"
  /\ stack = <<>>
  /\ exit' = "success"
  /\ UNCHANGED <<op, self, arg, stack, vals, called, result>>

\* The caller of the runner receives the outcome of the run.
CataReturn ==
  /\ op \in CataOps
  /\ exit # "running"
  /\ Len(result) = 0
  /\ result' = IF op \in TreeCataEffectOps
                 THEN <<nodeCountAtLeast(exit)>>
                 ELSE <<vals[1]>>
  /\ UNCHANGED <<op, self, arg, stack, vals, called, exit>>

InitFold ==
  /\ op \in CataOps
  /\ self \in Trees
  /\ arg \in (IF op \in TreeCataEffectOps THEN AtLeasts ELSE {0})
  /\ stack = <<FoldFrame(<<>>)>>
  /\ vals = <<>>
  /\ called = <<>>
  /\ exit = "running"
  /\ result = <<>>

NextFold == CataLeaf \/ CataBranch \/ CataCombine \/ CataSucceed \/ CataReturn

SpecFold == InitFold /\ [][NextFold]_vars

(***************************************************************************)
(* Ordered effectful mapping (mapEffect, mapEffect.pre) and traversal      *)
(* (traverseEffect, traverseEffect.post, traverse), one step at a time.    *)
(*                                                                         *)
(* The function f is given by arg: f(a) fails when a is in arg.failsOn and *)
(* succeeds with arg.fn[a] otherwise.  A frame "run" stands for the        *)
(* recursive function applied to the subtree at its path by Effect.forEach,*)
(* a frame "flatMap" or "map" for the continuation that Effect.flatMap or  *)
(* Effect.map attached to the effect of a branch.                          *)
(***************************************************************************)
MapOps == {"mapEffect", "mapEffect.pre"}

TraverseOps == {"traverseEffect", "traverseEffect.post", "traverse"}

Fns == [Values -> Values]

ApplyF(a) == IF a \in arg.failsOn THEN fail("e") ELSE succeed(arg.fn[a])

RunFrame(p) == [k |-> "run", path |-> p]

FlatMapFrame(p) == [k |-> "flatMap", path |-> p]

MapFrame(p, value) == [k |-> "map", path |-> p, value |-> value]

\* Effect.forEach over the forest of the branch t at p: the children are
\* run one after the other, left to right.
ForEachRun(p, t) == [i \in DOMAIN getBranchForest(t) |-> RunFrame(Append(p, i))]

\* As ExecutedF below, but a failure of f ends the run as a success.
ExecutedFLosingFailure(p, e, stackOnSuccess, valsOnSuccess) ==
  /\ called' = Append(called, [path |-> p, ok |-> isSuccess(e)])
  /\ IF isSuccess(e)
       THEN /\ stack' = stackOnSuccess
            /\ vals' = valsOnSuccess
            /\ exit' = exit
       ELSE /\ stack' = <<>>
            /\ vals' = <<leaf(0)>>
            /\ exit' = "success"
  /\ UNCHANGED <<op, self, arg, result>>

\* The effect f(value) of the node at p has been executed with outcome e:
\* a success continues with the given continuation and values, a failure
\* fails the whole run and drops what was left to run.
ExecutedF(p, e, stackOnSuccess, valsOnSuccess) ==
  /\ called' = Append(called, [path |-> p, ok |-> isSuccess(e)])
  /\ IF isSuccess(e)
       THEN /\ stack' = stackOnSuccess
            /\ vals' = valsOnSuccess
            /\ exit' = exit
       ELSE /\ stack' = <<>>
            /\ vals' = <<>>
            /\ exit' = "failure"
  /\ UNCHANGED <<op, self, arg, result>>

\* tree-level withForest(value)(forest) and tree.flipped(value)(forest).
withForest(value, forest) == tree(value, forest)

\* treeK(F)(value, forest) for the identity applicative F.
treeK(value, forest) == tree(value, forest)

\* The head frame is of kind k and the run is on.
Running(k) ==
  /\ exit = "running"
  /\ stack # <<>>
  /\ Head(stack).k = k

\* Post-order branch: the forest first, f(value) in the continuation.
ForestThenValue(p, t) ==
  /\ stack' = ForEachRun(p, t) \o <<FlatMapFrame(p)>> \o Tail(stack)
  /\ UNCHANGED <<op, self, arg, vals, called, exit, result>>

\* Pre-order branch: f(value) now, the forest in the continuation.
ValueThenForest(p, t) ==
  LET e == ApplyF(getValue(t))
  IN  ExecutedF(p, e,
                ForEachRun(p, t) \o <<MapFrame(p, e.value)>> \o Tail(stack),
                vals)

\* mapEffect, onLeaf: flow(f, Effect.map(leaf)).
MapEffectLeaf ==
  /\ op = "mapEffect"
  /\ Running("run")
  /\ LET p == Head(stack).path
         t == SubtreeAt(self, p)
         e == ApplyF(getValue(t))
     IN  /\ isLeaf(t)
         /\ ExecutedF(p, e, Tail(stack), Append(vals, leaf(e.value)))

\* As MapEffectBranch below, but the parent's effect runs before the forest.
MapEffectBranchValueFirst ==
  /\ op = "mapEffect"
  /\ Running("run")
  /\ LET p == Head(stack).path
         t == SubtreeAt(self, p)
     IN  /\ isBranch(t)
         /\ ValueThenForest(p, t)

\* mapEffect, onBranch: Effect.forEach(mapEffect(f)) over the forest, then
\* the flatMap continuation.
MapEffectBranch ==
  /\ op = "mapEffect"
  /\ Running("run")
  /\ LET p == Head(stack).path
         t == SubtreeAt(self, p)
     IN  /\ isBranch(t)
         /\ ForestThenValue(p, t)

\* mapEffect, the flatMap continuation of a branch:
\* forest => pipe(value, f, Effect.map(branch(forest))).
MapEffectFlatMap ==
  /\ op \in MapOps
  /\ Running("flatMap")
  /\ LET p == Head(stack).path
         t == SubtreeAt(self, p)
         n == Len(getBranchForest(t))
         e == ApplyF(getValue(t))
     IN  ExecutedF(p, e, Tail(stack),
                   Append(DropLastN(vals, n), branch(e.value, LastN(vals, n))))

\* mapEffect.pre, onLeaf: flow(f, Effect.map(leaf)).
MapEffectPreLeaf ==
  /\ op = "mapEffect.pre"
  /\ Running("run")
  /\ LET p == Head(stack).path
         t == SubtreeAt(self, p)
         e == ApplyF(getValue(t))
     IN  /\ isLeaf(t)
         /\ ExecutedF(p, e, Tail(stack), Append(vals, leaf(e.value)))

\* As MapEffectPreBranch below, but the forest runs before the parent's
\* effect.
MapEffectPreBranchForestFirst ==
  /\ op = "mapEffect.pre"
  /\ Running("run")
  /\ LET p == Head(stack).path
         t == SubtreeAt(self, p)
     IN  /\ isBranch(t)
         /\ ForestThenValue(p, t)

\* mapEffect.pre, onBranch: Effect.flatMap(f(value), value => the forest
\* run by Effect.forEach(mapEffect.pre(f)), then mapped).
MapEffectPreBranch ==
  /\ op = "mapEffect.pre"
  /\ Running("run")
  /\ LET p == Head(stack).path
         t == SubtreeAt(self, p)
     IN  /\ isBranch(t)
         /\ ValueThenForest(p, t)

\* mapEffect.pre, the map continuation of a branch: the mapped forest is
\* attached to the mapped value.
MapEffectPreMap ==
  /\ op \in MapOps
  /\ Running("map")
  /\ LET t == SubtreeAt(self, Head(stack).path)
         n == Len(getBranchForest(t))
     IN  vals' = Append(DropLastN(vals, n),
                        withForest(Head(stack).value, LastN(vals, n)))
  /\ stack' = Tail(stack)
  /\ UNCHANGED <<op, self, arg, called, exit, result>>

\* The depth-first order of the traversals: traverseEffect is
\* orderedTraverseEffect('pre'), its key `post` orderedTraverseEffect('post'),
\* and traverse runs traverseEffect.
traverseEffectAsPost == "post"

traverseEffect == "pre"

traverseEffectPost == "post"

traverse == traverseEffect

order ==
  CASE op = "traverseEffect" -> traverseEffect
    [] op = "traverseEffect.post" -> traverseEffectPost
    [] op = "traverse" -> traverse

\* orderedTraverseEffect, onLeaf: flow(f, Effect.map(F.map(leaf))).
TraverseLeaf ==
  /\ op \in TraverseOps
  /\ Running("run")
  /\ LET p == Head(stack).path
         t == SubtreeAt(self, p)
         e == ApplyF(getValue(t))
     IN  /\ isLeaf(t)
         /\ ExecutedF(p, e, Tail(stack), Append(vals, leaf(e.value)))

\* orderedTraverseEffect, onBranch: by the order, the forest and then the
\* value, or the value and then the forest.
TraverseBranch ==
  /\ op \in TraverseOps
  /\ Running("run")
  /\ LET p == Head(stack).path
         t == SubtreeAt(self, p)
     IN  /\ isBranch(t)
         /\ IF order = "post" THEN ForestThenValue(p, t) ELSE ValueThenForest(p, t)

\* orderedTraverseEffect, post-order continuation:
\* forest => Effect.map(f(value), buildTree(forest)).
TraverseFlatMap ==
  /\ op \in TraverseOps
  /\ Running("flatMap")
  /\ LET p == Head(stack).path
         t == SubtreeAt(self, p)
         n == Len(getBranchForest(t))
         e == ApplyF(getValue(t))
     IN  ExecutedF(p, e, Tail(stack),
                   Append(DropLastN(vals, n), treeK(e.value, LastN(vals, n))))

\* orderedTraverseEffect, pre-order continuation:
\* forest => buildTree(value, forest).
TraverseMap ==
  /\ op \in TraverseOps
  /\ Running("map")
  /\ LET t == SubtreeAt(self, Head(stack).path)
         n == Len(getBranchForest(t))
     IN  vals' = Append(DropLastN(vals, n),
                        treeK(Head(stack).value, LastN(vals, n)))
  /\ stack' = Tail(stack)
  /\ UNCHANGED <<op, self, arg, called, exit, result>>

\* Nothing is left to run: the effect succeeds with the mapped tree.
EffectSucceed ==
  /\ op \in MapOps \cup TraverseOps
  /\ exit = "running"
  /\ stack = <<>>
  /\ exit' = "success"
  /\ UNCHANGED <<op, self, arg, stack, vals, called, result>>

\* The caller receives the exit of the effect: the mapped tree or the
\* failure.
EffectReturn ==
  /\ op \in MapOps \cup TraverseOps
  /\ exit # "running"
  /\ Len(result) = 0
  /\ result' = IF exit = "success" THEN <<succeed(vals[1])>> ELSE <<fail("e")>>
  /\ UNCHANGED <<op, self, arg, stack, vals, called, exit>>

\* traverse wraps f with succeedBy: its effects never fail.
InitMap ==
  /\ op \in MapOps \cup TraverseOps
  /\ self \in Trees
  /\ arg \in [fn : Fns,
              failsOn : IF op = "traverse" THEN {{}} ELSE SUBSET Values]
  /\ stack = <<RunFrame(<<>>)>>
  /\ vals = <<>>
  /\ called = <<>>
  /\ exit = "running"
  /\ result = <<>>

NextMap ==
  \/ MapEffectLeaf
  \/ MapEffectBranch
  \/ MapEffectFlatMap
  \/ MapEffectPreLeaf
  \/ MapEffectPreBranch
  \/ MapEffectPreMap
  \/ TraverseLeaf
  \/ TraverseBranch
  \/ TraverseFlatMap
  \/ TraverseMap
  \/ EffectSucceed
  \/ EffectReturn

SpecMap == InitMap /\ [][NextMap]_vars

(***************************************************************************)
(* Claims about the fold runners.                                          *)
(***************************************************************************)
\* C1: in treeCataEffect, once the folder fails at a node it is never
\* executed again (the failing execution is the last one), the run is in
\* the failure state with nothing left to run, and the caller receives
\* that failure (nodeCountAtLeast reports true exactly for a failed run).
C1_FailureStopsTheFold ==
  op \in TreeCataEffectOps =>
    /\ \A i \in DOMAIN called :
         ~called[i].ok => (i = Len(called) /\ exit = "failure" /\ stack = <<>>)
    /\ exit = "failure" => (called # <<>> /\ ~called[Len(called)].ok)
    /\ Len(result) > 0 => (result[1] <=> exit = "failure")

\* A failed run that left later siblings and ancestors unfolded and whose
\* failure reached the caller.
C1_Witness ==
  /\ op \in TreeCataEffectOps
  /\ exit = "failure"
  /\ Len(result) > 0
  /\ Len(called) > 1
  /\ Len(called) + 1 < NodesOf(self)

\* Some proper subtree of self has at least k nodes.
SomeProperSubtreeHas(k) ==
  \E p \in Positions(self) \ {<<>>} : NodesOf(SubtreeAt(self, p)) >= k

\* C2 as stated: with a threshold below the node count n the folder is
\* executed strictly fewer than n times.
C2_FewerThanNodeCount ==
  (op = "nodeCountAtLeast" /\ arg < NodesOf(self)) => Len(called) < NodesOf(self)

\* C2 amended: the folder is executed at most n times, and a finished run
\* executed it strictly fewer than n times exactly when some proper
\* subtree has at least k nodes.
C2_FewerIffReachedBelowRoot ==
  op = "nodeCountAtLeast" =>
    /\ Len(called) <= NodesOf(self)
    /\ exit # "running" =>
         (Len(called) < NodesOf(self) <=> SomeProperSubtreeHas(arg))

\* A finished run with k < n that stopped below the root.
C2_Witness ==
  /\ op = "nodeCountAtLeast"
  /\ exit # "running"
  /\ arg > 1
  /\ arg < NodesOf(self)
  /\ SomeProperSubtreeHas(arg)
  /\ Len(called) < NodesOf(self)

\* The executions recorded in `called` are in depth-first post-order:
\* no node twice, no node before one of its descendants, no node before a
\* node of an earlier sibling's subtree, and nothing skipped on the way.
CalledInPostOrder ==
  /\ \A i, j \in DOMAIN called :
       i < j => /\ called[i].path # called[j].path
                /\ ~IsProperPrefix(called[i].path, called[j].path)
                /\ ~LeftOf(called[j].path, called[i].path)
  /\ \A i \in DOMAIN called : \A q \in Positions(self) :
       (IsProperPrefix(called[i].path, q) \/ LeftOf(q, called[i].path))
         => \E j \in 1..(i - 1) : called[j].path = q

\* C3: treeCata applies the folder exactly once per node, in depth-first
\* post-order with the children left to right.
C3_CataOncePerNodePostOrder ==
  op \in TreeCataOps =>
    /\ CalledPaths \subseteq Positions(self)
    /\ CalledInPostOrder
    /\ exit = "success" =>
         (CalledPaths = Positions(self) /\ Len(called) = NodesOf(self))

\* A finished fold of a tree with a branch below the root and a later
\* sibling.
C3_Witness ==
  /\ op \in TreeCataOps
  /\ exit = "success"
  /\ Len(result) > 0
  /\ <<1, 1>> \in Positions(self)
  /\ <<2>> \in Positions(self)

(***************************************************************************)
(* Claims about the ordered mapping and traversal.                         *)
(***************************************************************************)
\* The executions recorded in `called` are in depth-first pre-order: no
\* node twice, no node before one of its ancestors, no node before a node
\* of an earlier sibling's subtree, and nothing skipped on the way.
CalledInPreOrder ==
  /\ \A i, j \in DOMAIN called :
       i < j => /\ called[i].path # called[j].path
                /\ ~IsProperPrefix(called[j].path, called[i].path)
                /\ ~LeftOf(called[j].path, called[i].path)
  /\ \A i \in DOMAIN called : \A q \in Positions(self) :
       (IsProperPrefix(q, called[i].path) \/ LeftOf(q, called[i].path))
         => \E j \in 1..(i - 1) : called[j].path = q /\ called[j].ok

\* C4: mapEffect.pre and the pre-order traverseEffect execute f at a
\* branch before f at any node of its children's subtrees, and the
\* children left to right, each subtree finished before the next begins.
C4_PreOrderParentFirst ==
  op \in {"mapEffect.pre", "traverseEffect"} =>
    /\ CalledPaths \subseteq Positions(self)
    /\ CalledInPreOrder
    /\ exit = "success" => CalledPaths = Positions(self)

\* A finished pre-order run over a tree with a grandchild and a later
\* sibling.
C4_Witness ==
  /\ op \in {"mapEffect.pre", "traverseEffect"}
  /\ exit = "success"
  /\ <<1, 1>> \in Positions(self)
  /\ <<2>> \in Positions(self)
  /\ called[1].path = <<>>

\* C5: mapEffect and traverseEffect.post execute f at every node of the
\* children's subtrees of a branch, left to right and each subtree finished
\* before the next begins, before f at the branch.
C5_PostOrderChildrenFirst ==
  op \in {"mapEffect", "traverseEffect.post"} =>
    /\ CalledPaths \subseteq Positions(self)
    /\ CalledInPostOrder
    /\ \A i \in DOMAIN called : i < Len(called) => called[i].ok
    /\ exit = "success" => CalledPaths = Positions(self)

\* A finished post-order run over a tree with a grandchild and a later
\* sibling.
C5_Witness ==
  /\ op \in {"mapEffect", "traverseEffect.post"}
  /\ exit = "success"
  /\ <<1, 1>> \in Positions(self)
  /\ <<2>> \in Positions(self)
  /\ called[Len(called)].path = <<>>

\* C6 as stated: the default traversal (traverse, traverseEffect) executes
\* the effects of the children of a branch before the effect of the branch.
C6_DefaultIsPostOrder ==
  op \in {"traverse", "traverseEffect"} =>
    \A i, j \in DOMAIN called :
      i < j => ~IsProperPrefix(called[i].path, called[j].path)

\* C6 amended: the default traversal executes the effect of a branch
\* before the effects of its children, and a finished run has executed the
\* effect of every node.
C6_DefaultIsPreOrder ==
  op \in {"traverse", "traverseEffect"} =>
    /\ \A i, j \in DOMAIN called :
         i < j => ~IsProperPrefix(called[j].path, called[i].path)
    /\ \A i \in DOMAIN called : \A q \in Positions(self) :
         IsProperPrefix(q, called[i].path) => q \in CalledPaths
    /\ exit = "success" => CalledPaths = Positions(self)

\* A finished default traversal of a tree with a branch below the root.
C6_Witness ==
  /\ op \in {"traverse", "traverseEffect"}
  /\ exit = "success"
  /\ Len(result) > 0
  /\ <<1, 1>> \in Positions(self)
  /\ called[1].path = <<>>

(***************************************************************************)
(* Covariant and Monad: map, flatten, flatMap, and the product of the      *)
(* Applicative.  A function of node values is a TLA+ function on Values.   *)
(***************************************************************************)
\* The tree that mapEffect(f) succeeds with when f never fails.
RECURSIVE mapEffectValue(_, _)
mapEffectValue(t, f) ==
  IF isBranch(t)
    THEN branch(f[getValue(t)],
                [i \in DOMAIN getBranchForest(t) |->
                   mapEffectValue(getBranchForest(t)[i], f)])
    ELSE leaf(f[getValue(t)])

\* As map below, but the mapped children are put in reverse order.
RECURSIVE mapReversingForest(_, _)
mapReversingForest(t, f) ==
  IF isBranch(t)
    THEN withForest(f[getValue(t)],
                    [i \in DOMAIN getBranchForest(t) |->
                       mapReversingForest(
                         getBranchForest(t)[Len(getBranchForest(t)) + 1 - i], f)])
    ELSE leaf(f[getValue(t)])

\* map: mapEffect.pre of flow(f, Effect.succeed), run.
RECURSIVE map(_, _)
map(t, f) ==
  IF isBranch(t)
    THEN withForest(f[getValue(t)],
                    [i \in DOMAIN getBranchForest(t) |->
                       map(getBranchForest(t)[i], f)])
    ELSE leaf(f[getValue(t)])

\* As flattenFold below, but the forest of the inner tree is kept in front
\* of the flattened children.
flattenFoldMerging(treeFSelf) ==
  IF isBranchF(treeFSelf)
    THEN branch(getValue(treeFSelf.node),
                getForestF(unfixTree(treeFSelf.node)) \o treeFSelf.forest)
    ELSE treeFSelf.node

\* As flattenFold below, but a leaf-shaped node keeps only the value of its
\* inner tree.
flattenFoldValueOnly(treeFSelf) ==
  IF isBranchF(treeFSelf)
    THEN branch(getValue(treeFSelf.node), treeFSelf.forest)
    ELSE leaf(getValue(treeFSelf.node))

flattenFold(treeFSelf) ==
  IF isBranchF(treeFSelf)
    THEN branch(getValue(treeFSelf.node), treeFSelf.forest)
    ELSE treeFSelf.node

\* flatten = cata(flattenFold): the children are flattened, then the node.
RECURSIVE flatten(_)
flatten(t) ==
  flattenFold(IF isBranch(t)
                THEN branchF(getValue(t),
                             [i \in DOMAIN getBranchForest(t) |->
                                flatten(getBranchForest(t)[i])])
                ELSE leafF(getValue(t)))

\* flatMap: mapEffect(flow(f, Effect.succeed)), then flattenEffect, run.
flatMap(t, f) == flatten(mapEffectValue(t, f))

of(value) == leaf(value)

\* Pair.pair.withFirst(a)(b).
pairWithFirst(a, b) == <<a, b>>

product(t, that) ==
  flatMap(t, [a \in Values |-> map(that, [b \in Values |-> pairWithFirst(a, b)])])

(***************************************************************************)
(* Equivalence.                                                            *)
(***************************************************************************)
\* Array.zip: pairs up to the length of the shorter list.
zipArrays(xs, ys) ==
  [i \in 1..(IF Len(xs) <= Len(ys) THEN Len(xs) ELSE Len(ys)) |-> <<xs[i], ys[i]>>]

\* Effect.forEach of effects already described by their exits: the first
\* failure fails the whole, otherwise it succeeds with the values.
forEachExit(exits) ==
  IF \E i \in DOMAIN exits : ~isSuccess(exits[i])
    THEN LET first == CHOOSE i \in DOMAIN exits :
                        /\ ~isSuccess(exits[i])
                        /\ \A j \in 1..(i - 1) : isSuccess(exits[j])
         IN  exits[first]
    ELSE succeed([i \in DOMAIN exits |-> exits[i].value])

\* As getEquivalenceEffect below, but a shorter forest on the left passes.
RECURSIVE getEquivalenceEffectOneSided(_, _, _)
getEquivalenceEffectOneSided(equalsA, t, that) ==
  LET selfValue == destruct(t)[1]
      selfForest == destruct(t)[2]
      thatValue == destruct(that)[1]
      thatForest == destruct(that)[2]
  IN  IF ~(<<selfValue, thatValue>> \in equalsA) \/ Len(selfForest) > Len(thatForest)
        THEN fail(<<>>)
        ELSE IF isNonEmptyReadonlyArray(selfForest)
               THEN forEachExit(
                      [i \in DOMAIN zipArrays(selfForest, thatForest) |->
                         getEquivalenceEffectOneSided(
                           equalsA, selfForest[i], thatForest[i])])
               ELSE succeed(<<>>)

\* As getEquivalenceEffect below, without the comparison of the forest
\* lengths.
RECURSIVE getEquivalenceEffectNoLength(_, _, _)
getEquivalenceEffectNoLength(equalsA, t, that) ==
  LET selfValue == destruct(t)[1]
      selfForest == destruct(t)[2]
      thatValue == destruct(that)[1]
      thatForest == destruct(that)[2]
  IN  IF ~(<<selfValue, thatValue>> \in equalsA)
        THEN fail(<<>>)
        ELSE IF isNonEmptyReadonlyArray(selfForest)
               THEN forEachExit(
                      [i \in DOMAIN zipArrays(selfForest, thatForest) |->
                         getEquivalenceEffectNoLength(
                           equalsA, selfForest[i], thatForest[i])])
               ELSE succeed(<<>>)

RECURSIVE getEquivalenceEffect(_, _, _)
getEquivalenceEffect(equalsA, t, that) ==
  LET selfValue == destruct(t)[1]
      selfForest == destruct(t)[2]
      thatValue == destruct(that)[1]
      thatForest == destruct(that)[2]
  IN  IF ~(<<selfValue, thatValue>> \in equalsA) \/ Len(selfForest) # Len(thatForest)
        THEN fail(<<>>)
        ELSE IF isNonEmptyReadonlyArray(selfForest)
               THEN forEachExit(
                      [i \in DOMAIN zipArrays(selfForest, thatForest) |->
                         getEquivalenceEffect(
                           equalsA,
                           zipArrays(selfForest, thatForest)[i][1],
                           zipArrays(selfForest, thatForest)[i][2])])
               ELSE succeed(<<>>)

\* Effect.match({onFailure: constFalse, onSuccess: constTrue}), run.
getEquivalence(equalsA, t, that) == isSuccess(getEquivalenceEffect(equalsA, t, that))

\* The element equivalences: equality, and the one that holds of all values.
strictEqual == {<<a, a>> : a \in Values}

EqualsAs == {strictEqual, Values \X Values}

(***************************************************************************)
(* The functions above, applied in one step to inputs drawn at the start.  *)
(***************************************************************************)
PureTrees == TreesUpTo(Values, MaxPureNodes)

\* The trees a function given to flatMap returns, which are also the node
\* values of the nested trees given to flatten.
InnerTrees ==
  TreesUpTo(Values, 2)
    \cup {branch(0, <<leaf(1), leaf(0)>>), branch(1, <<branch(0, <<leaf(1)>>)>>)}

NestedTrees == TreesUpTo(InnerTrees, MaxPureNodes)

TreeFns == [Values -> InnerTrees]

\* The functions given as the second function of the associativity law.
SmallTreeFns ==
  [Values -> {leaf(0), leaf(1), branch(0, <<leaf(1)>>),
              branch(1, <<leaf(0), leaf(1)>>)}]

Applied(value) ==
  /\ exit = "running"
  /\ result' = <<value>>
  /\ exit' = "success"
  /\ UNCHANGED <<op, self, arg, stack, vals, called>>

Flatten == op = "flatten" /\ Applied(flatten(self))

FlatMap == op = "flatMap" /\ Applied(flatMap(self, arg.f))

Product == op = "product" /\ Applied(product(self, arg))

InitMonad ==
  /\ op \in {"flatten", "flatMap", "product"}
  /\ \/ op = "flatten" /\ self \in NestedTrees /\ arg = 0
     \/ op = "flatMap" /\ self \in PureTrees /\ arg \in [f : TreeFns, g : SmallTreeFns]
     \/ op = "product" /\ self \in PureTrees /\ arg \in PureTrees
  /\ stack = <<>>
  /\ vals = <<>>
  /\ called = <<>>
  /\ exit = "running"
  /\ result = <<>>

NextMonad == Flatten \/ FlatMap \/ Product

SpecMonad == InitMonad /\ [][NextMonad]_vars

GetEquivalence ==
  op = "getEquivalence" /\ Applied(getEquivalence(arg.equalsA, self, arg.that))

InitOrd ==
  /\ op \in {"getEquivalence"}
  /\ self \in PureTrees
  /\ arg \in [that : PureTrees, equalsA : EqualsAs]
  /\ stack = <<>>
  /\ vals = <<>>
  /\ called = <<>>
  /\ exit = "running"
  /\ result = <<>>

NextOrd == GetEquivalence

SpecOrd == InitOrd /\ [][NextOrd]_vars

(***************************************************************************)
(* Claims about the instances.                                             *)
(***************************************************************************)
ValuesOf(t) == {getValue(SubtreeAt(t, p)) : p \in Positions(t)}

\* The tree of the worked example: an outer branch that holds the inner
\* branch 0(1) and has two leaf-shaped children holding 1 and 0(1).
FlattenExample ==
  branch(branch(0, <<leaf(1)>>),
         <<leaf(leaf(1)), leaf(branch(0, <<leaf(1)>>))>>)

\* C7: flatten replaces a branch-shaped outer node by a branch with the
\* value of its inner tree and as many children as the outer node has (the
\* flattened outer children, in order), and a leaf-shaped outer node by its
\* inner tree unchanged; the worked example flattens to 0(1, 0(1)).
C7_FlattenKeepsOuterForest ==
  (op = "flatten" /\ exit = "success") =>
    LET r == result[1]
    IN  /\ \A p \in Positions(self) :
             /\ p \in Positions(r)
             /\ LET o == SubtreeAt(self, p)
                    n == SubtreeAt(r, p)
                IN  IF isLeaf(o)
                      THEN n = getValue(o)
                      ELSE /\ isBranch(n)
                           /\ getValue(n) = getValue(getValue(o))
                           /\ Len(getBranchForest(n)) = Len(getBranchForest(o))
        /\ self = FlattenExample =>
             r = branch(0, <<leaf(1), branch(0, <<leaf(1)>>)>>)

\* The worked example has been flattened.
C7_Witness ==
  /\ op = "flatten"
  /\ exit = "success"
  /\ self = FlattenExample

\* C8: the monad laws under tree equivalence: left identity for every
\* value, right identity, and associativity.
C8_MonadLaws ==
  (op = "flatMap" /\ exit = "success") =>
    /\ \A a \in Values :
         getEquivalence(strictEqual, flatMap(of(a), arg.f), arg.f[a])
    /\ getEquivalence(strictEqual, flatMap(self, [a \in Values |-> of(a)]), self)
    /\ getEquivalence(strictEqual,
                      flatMap(result[1], arg.g),
                      flatMap(self, [a \in Values |-> flatMap(arg.f[a], arg.g)]))

\* flatMap has been applied to a branch with functions that return
\* branches.
C8_Witness ==
  /\ op = "flatMap"
  /\ exit = "success"
  /\ isBranch(self)
  /\ \A a \in Values : isBranch(arg.f[a]) /\ isBranch(arg.g[a])

\* C9: every node value of self paired with every node value of that is
\* a node value of product(self, that).
C9_ProductHoldsEveryPair ==
  (op = "product" /\ exit = "success") =>
    \A a \in ValuesOf(self) : \A b \in ValuesOf(arg) :
      <<a, b>> \in ValuesOf(result[1])

\* The trees have the same shape and equivalent values at every position.
SameShapeAndValues(equalsA, t, that) ==
  /\ Positions(t) = Positions(that)
  /\ \A p \in Positions(t) :
       <<getValue(SubtreeAt(t, p)), getValue(SubtreeAt(that, p))>> \in equalsA

\* C10: getEquivalence(eqA)(self, that) is true exactly when the trees
\* have the same shape and eqA holds of the values at every position.
C10_EquivalenceIsStructural ==
  (op = "getEquivalence" /\ exit = "success") =>
    (result[1] <=> SameShapeAndValues(arg.equalsA, self, arg.that))

\* Two different trees with a grandchild have been found equivalent.
C10_Witness ==
  /\ op = "getEquivalence"
  /\ exit = "success"
  /\ result[1]
  /\ self # arg.that
  /\ <<1, 1>> \in Positions(self)

(***************************************************************************)
(* Order: src/order.                                                       *)
(***************************************************************************)
\* As getOrderEffect below, but a branch compared with a leaf fails with -1
\* as well.
RECURSIVE getOrderEffectBranchFirst(_, _, _)
getOrderEffectBranchFirst(orderA, t, that) ==
  IF isLeaf(t)
    THEN IF isLeaf(that)
           THEN LET valueOrder == orderA[<<getValue(t), getValue(that)>>]
                IN  IF valueOrder = 0 THEN succeed(<<>>) ELSE fail(valueOrder)
           ELSE fail(-1)
    ELSE IF isLeaf(that)
           THEN fail(-1)
           ELSE LET selfForest == getBranchForest(t)
                    thatForest == getBranchForest(that)
                    valueOrder == orderA[<<getValue(t), getValue(that)>>]
                IN  IF valueOrder # 0
                      THEN fail(valueOrder)
                      ELSE IF Len(selfForest) < Len(thatForest)
                             THEN fail(-1)
                             ELSE IF Len(selfForest) > Len(thatForest)
                                    THEN fail(1)
                                    ELSE LET exits ==
                                               forEachExit(
                                                 [i \in DOMAIN zipArrays(selfForest, thatForest) |->
                                                    getOrderEffectBranchFirst(
                                                      orderA, selfForest[i], thatForest[i])])
                                         IN  IF isSuccess(exits)
                                               THEN succeed(<<>>)
                                               ELSE exits

\* As getOrderEffect below, without the comparison of the forest lengths.
RECURSIVE getOrderEffectNoLength(_, _, _)
getOrderEffectNoLength(orderA, t, that) ==
  IF isLeaf(t)
    THEN IF isLeaf(that)
           THEN LET valueOrder == orderA[<<getValue(t), getValue(that)>>]
                IN  IF valueOrder = 0 THEN succeed(<<>>) ELSE fail(valueOrder)
           ELSE fail(-1)
    ELSE IF isLeaf(that)
           THEN fail(1)
           ELSE LET selfForest == getBranchForest(t)
                    thatForest == getBranchForest(that)
                    valueOrder == orderA[<<getValue(t), getValue(that)>>]
                IN  IF valueOrder # 0
                      THEN fail(valueOrder)
                      ELSE LET exits ==
                                 forEachExit(
                                   [i \in DOMAIN zipArrays(selfForest, thatForest) |->
                                      getOrderEffectNoLength(
                                        orderA, selfForest[i], thatForest[i])])
                           IN  IF isSuccess(exits) THEN succeed(<<>>) ELSE exits

\* As getOrderEffect below, but a leaf and a branch are compared by their
\* values first, the leaf coming first only when the values are equal.
RECURSIVE getOrderEffectValueFirst(_, _, _)
getOrderEffectValueFirst(orderA, t, that) ==
  LET valueOrder == orderA[<<getValue(t), getValue(that)>>]
  IN  IF valueOrder # 0
        THEN fail(valueOrder)
        ELSE IF isLeaf(t)
               THEN IF isLeaf(that) THEN succeed(<<>>) ELSE fail(-1)
               ELSE IF isLeaf(that)
                      THEN fail(1)
                      ELSE LET selfForest == getBranchForest(t)
                               thatForest == getBranchForest(that)
                           IN  IF Len(selfForest) < Len(thatForest)
                                 THEN fail(-1)
                                 ELSE IF Len(selfForest) > Len(thatForest)
                                        THEN fail(1)
                                        ELSE LET exits ==
                                                   forEachExit(
                                                     [i \in DOMAIN zipArrays(selfForest, thatForest) |->
                                                        getOrderEffectValueFirst(
                                                          orderA, selfForest[i], thatForest[i])])
                                             IN  IF isSuccess(exits)
                                                   THEN succeed(<<>>)
                                                   ELSE exits

\* Success encodes equality, a failure of -1 or 1 less than or greater
\* than.  Effect.forEach runs the comparisons of the zipped children in
\* order and fails with the first failure; Effect.map(K(void {})) replaces
\* the value of a success.
RECURSIVE getOrderEffect(_, _, _)
getOrderEffect(orderA, t, that) ==
  IF isLeaf(t)
    THEN IF isLeaf(that)
           THEN LET valueOrder == orderA[<<getValue(t), getValue(that)>>]
                IN  IF valueOrder = 0 THEN succeed(<<>>) ELSE fail(valueOrder)
           ELSE fail(-1)
    ELSE IF isLeaf(that)
           THEN fail(1)
           ELSE LET selfForest == getBranchForest(t)
                    thatForest == getBranchForest(that)
                    valueOrder == orderA[<<getValue(t), getValue(that)>>]
                IN  IF valueOrder # 0
                      THEN fail(valueOrder)
                      ELSE IF Len(selfForest) < Len(thatForest)
                             THEN fail(-1)
                             ELSE IF Len(selfForest) > Len(thatForest)
                                    THEN fail(1)
                                    ELSE LET exits ==
                                               forEachExit(
                                                 [i \in DOMAIN zipArrays(selfForest, thatForest) |->
                                                    getOrderEffect(
                                                      orderA, selfForest[i], thatForest[i])])
                                         IN  IF isSuccess(exits)
                                               THEN succeed(<<>>)
                                               ELSE exits

\* Effect.match({onSuccess: K(0), onFailure: identity}), run.
getOrder(orderA, t, that) ==
  LET e == getOrderEffect(orderA, t, that)
  IN  IF isSuccess(e) THEN 0 ELSE e.error

\* The element orders: the order of the numbers and its reverse.
NumberOrder ==
  [p \in Values \X Values |->
     IF p[1] < p[2] THEN -1 ELSE IF p[1] > p[2] THEN 1 ELSE 0]

OrderAs == {NumberOrder, [p \in Values \X Values |-> NumberOrder[<<p[2], p[1]>>]]}

(***************************************************************************)
(* The laws of the instances: the relation built from a fixed element      *)
(* relation is applied to every pair of three trees.                       *)
(***************************************************************************)
LawTrees == TreesUpTo(Values, MaxPureNodes - 1)

Names == {"self", "that", "other"}

Named(n) ==
  CASE n = "self" -> self
    [] n = "that" -> arg.that
    [] n = "other" -> arg.other

Equivalence ==
  /\ op = "Equivalence"
  /\ Applied([p \in Names \X Names |->
                getEquivalence(arg.equalsA, Named(p[1]), Named(p[2]))])

Order ==
  /\ op = "Order"
  /\ Applied([p \in Names \X Names |->
                getOrder(arg.orderA, Named(p[1]), Named(p[2]))])

InitLaws ==
  /\ op \in {"Equivalence", "Order"}
  /\ self \in PureTrees
  /\ \/ op = "Equivalence"
        /\ arg \in [that : PureTrees, other : LawTrees, equalsA : EqualsAs]
     \/ op = "Order"
        /\ arg \in [that : PureTrees, other : LawTrees, orderA : OrderAs]
  /\ stack = <<>>
  /\ vals = <<>>
  /\ called = <<>>
  /\ exit = "running"
  /\ result = <<>>

NextLaws == Equivalence \/ Order

SpecLaws == InitLaws /\ [][NextLaws]_vars

(***************************************************************************)
(* Claims about the equivalence and the order.                             *)
(***************************************************************************)
\* C11: for a fixed element equivalence, getEquivalence is reflexive,
\* symmetric and transitive on trees.
C11_EquivalenceLaws ==
  (op = "Equivalence" /\ exit = "success") =>
    LET r == result[1]
    IN  /\ \A x \in Names : r[<<x, x>>] = TRUE
        /\ \A x, y \in Names : r[<<x, y>>] \in BOOLEAN /\ (r[<<x, y>>] => r[<<y, x>>])
        /\ \A x, y, z \in Names : (r[<<x, y>>] /\ r[<<y, z>>]) => r[<<x, z>>]

\* Three different trees, branches among them, have been found equivalent.
C11_Witness ==
  /\ op = "Equivalence"
  /\ exit = "success"
  /\ Cardinality({self, arg.that, arg.other}) = 3
  /\ isBranch(arg.other)
  /\ \A x, y \in Names : result[1][<<x, y>>]

\* The first pair of children that does not compare as equal, 0 if none.
FirstNonEqual(orderA, selfForest, thatForest) ==
  IF \E i \in DOMAIN selfForest : getOrder(orderA, selfForest[i], thatForest[i]) # 0
    THEN LET i == CHOOSE i \in DOMAIN selfForest :
                    /\ getOrder(orderA, selfForest[i], thatForest[i]) # 0
                    /\ \A j \in 1..(i - 1) :
                         getOrder(orderA, selfForest[j], thatForest[j]) = 0
         IN  getOrder(orderA, selfForest[i], thatForest[i])
    ELSE 0

\* C12: two leaves compare by value; a leaf comes before a branch with an
\* equal value; two branches compare by value, then by forest length
\* (shorter first), then by their children pairwise left to right, the
\* first non-equal comparison deciding, 0 only when all are equal.
C12_OrderCompares ==
  (op = "Order" /\ exit = "success") =>
    LET r == result[1][<<"self", "that">>]
        that == arg.that
        valueOrder == arg.orderA[<<getValue(self), getValue(that)>>]
    IN  /\ (isLeaf(self) /\ isLeaf(that)) => r = valueOrder
        /\ (isLeaf(self) /\ isBranch(that) /\ valueOrder = 0) => r = -1
        /\ (isBranch(self) /\ isLeaf(that) /\ valueOrder = 0) => r = 1
        /\ (isBranch(self) /\ isBranch(that)) =>
             r = IF valueOrder # 0
                   THEN valueOrder
                   ELSE IF Len(getBranchForest(self)) < Len(getBranchForest(that))
                          THEN -1
                          ELSE IF Len(getBranchForest(self)) > Len(getBranchForest(that))
                                 THEN 1
                                 ELSE FirstNonEqual(arg.orderA,
                                                    getBranchForest(self),
                                                    getBranchForest(that))

\* Two branches with equal values and two children each, the first
\* children equal, have been ordered by their second children.
C12_Witness ==
  /\ op = "Order"
  /\ exit = "success"
  /\ isBranch(self) /\ isBranch(arg.that)
  /\ getValue(self) = getValue(arg.that)
  /\ Len(getBranchForest(self)) = 2 /\ Len(getBranchForest(arg.that)) = 2
  /\ getBranchForest(self)[1] = getBranchForest(arg.that)[1]
  /\ result[1][<<"self", "that">>] = 1

\* The element equivalence an element order induces.
EqualsOf(orderA) == {p \in Values \X Values : orderA[p] = 0}

\* C13: for a fixed total element order, getOrder gives -1, 0 or 1,
\* compare(a, b) = -compare(b, a), compare(a, b) = 0 exactly when a and b
\* are structurally equivalent, and compare(a, b) <= 0 and compare(b, c) <= 0
\* imply compare(a, c) <= 0.
C13_OrderLaws ==
  (op = "Order" /\ exit = "success") =>
    LET r == result[1]
    IN  /\ \A x, y \in Names :
             /\ r[<<x, y>>] \in {-1, 0, 1}
             /\ r[<<x, y>>] = 0 - r[<<y, x>>]
             /\ (r[<<x, y>>] = 0) <=>
                  SameShapeAndValues(EqualsOf(arg.orderA), Named(x), Named(y))
        /\ \A x, y, z \in Names :
             (r[<<x, y>>] <= 0 /\ r[<<y, z>>] <= 0) => r[<<x, z>>] <= 0

\* A leaf, a branch and a branch with more children have been ordered
\* strictly, one after the other.
C13_Witness ==
  /\ op = "Order"
  /\ exit = "success"
  /\ isLeaf(self) /\ isBranch(arg.other) /\ isBranch(arg.that)
  /\ Len(getBranchForest(arg.other)) < Len(getBranchForest(arg.that))
  /\ result[1][<<"self", "other">>] = -1
  /\ result[1][<<"other", "that">>] = -1
  /\ result[1][<<"self", "that">>] = -1

(***************************************************************************)
(* The counting folds as functions of the tree: treeCata folds the         *)
(* children, left to right, and then the node.                             *)
(***************************************************************************)
RECURSIVE nodeCount(_)
nodeCount(t) ==
  descendantCountFold(IF isBranch(t)
                        THEN branchF(getValue(t),
                                     [i \in DOMAIN getBranchForest(t) |->
                                        nodeCount(getBranchForest(t)[i])])
                        ELSE leafF(getValue(t)))

RECURSIVE maximumNodeHeight(_)
maximumNodeHeight(t) ==
  maximumHeightFold(IF isBranch(t)
                      THEN branchF(getValue(t),
                                   [i \in DOMAIN getBranchForest(t) |->
                                      maximumNodeHeight(getBranchForest(t)[i])])
                      ELSE leafF(getValue(t)))

RECURSIVE maximumNodeDegree(_)
maximumNodeDegree(t) ==
  maximumDegreeFold(IF isBranch(t)
                      THEN branchF(getValue(t),
                                   [i \in DOMAIN getBranchForest(t) |->
                                      maximumNodeDegree(getBranchForest(t)[i])])
                      ELSE leafF(getValue(t)))

(***************************************************************************)
(* Claims about the counts.                                                *)
(***************************************************************************)
\* The run of a fold has returned to its caller.
Returned(o) == op = o /\ Len(result) = 1

\* C14: nodeCount(t) = 1 + the sum of nodeCount over the children of t,
\* so nodeCount of a leaf is 1 and nodeCount is at least 1; of a leaf the
\* maximum height is 1 and the maximum degree is 0.
C14_CountInvariants ==
  /\ Returned("nodeCount") =>
       /\ result[1] = nodeCount(self)
       /\ result[1] =
            1 + (IF isBranch(self)
                   THEN sumAll([i \in DOMAIN getBranchForest(self) |->
                                  nodeCount(getBranchForest(self)[i])])
                   ELSE 0)
       /\ result[1] >= 1
       /\ isLeaf(self) => result[1] = 1
  /\ (Returned("maximumNodeHeight") /\ isLeaf(self)) =>
       result[1] = 1 /\ maximumNodeHeight(self) = 1
  /\ (Returned("maximumNodeDegree") /\ isLeaf(self)) =>
       result[1] = 0 /\ maximumNodeDegree(self) = 0

\* The nodes of a tree with a branch below its root have been counted.
C14_Witness ==
  /\ Returned("nodeCount")
  /\ isBranch(self)
  /\ \E i \in DOMAIN getBranchForest(self) : isBranch(getBranchForest(self)[i])
  /\ result[1] = MaxNodes

\* C15: nodeCountAtLeast(k)(t) returns a boolean, true exactly when
\* nodeCount(t) >= k, whether the fold ran to its end or was cut short.
C15_AtLeastIffCount ==
  Returned("nodeCountAtLeast") =>
    /\ result[1] \in BOOLEAN
    /\ result[1] <=> (nodeCount(self) >= arg)

\* A branch with exactly k nodes has been found to have at least k, the
\* fold failing only at the root.
C15_Witness ==
  /\ Returned("nodeCountAtLeast")
  /\ isBranch(self)
  /\ arg = nodeCount(self)
  /\ Len(called) = arg
  /\ result[1] = TRUE

(***************************************************************************)
(* Levels: src/ops/levels.  treeAna unfolds a seed into a node and the     *)
(* seeds of its children, and then unfolds the children, left to right.   *)
(***************************************************************************)
\* Pair.pair.withSecond(b)(a).
pairWithSecond(b, a) == <<a, b>>

annotateDepthUnfold(seed) ==
  LET t == seed[1]
      previousDepth == seed[2]
      depth == previousDepth + 1
  IN  IF isBranch(t)
        THEN branchF(<<getValue(t), depth>>,
                     [i \in DOMAIN getBranchForest(t) |->
                        pairWithSecond(depth, getBranchForest(t)[i])])
        ELSE leafF(pairWithSecond(depth, getValue(t)))

\* treeAna(annotateDepthUnfold).
RECURSIVE annotateDepthAna(_)
annotateDepthAna(seed) ==
  LET unfolded == annotateDepthUnfold(seed)
  IN  IF isBranchF(unfolded)
        THEN fixTree(branchF(unfolded.node,
                             [i \in DOMAIN unfolded.forest |->
                                annotateDepthAna(unfolded.forest[i])]))
        ELSE fixTree(unfolded)

annotateDepth(t) == annotateDepthAna(<<t, 0>>)

\* As cropDepthUnfold below, but the budget runs out at 0.
cropDepthUnfoldAtZero(seed) ==
  LET depth == seed[1]
      t == seed[2]
  IN  IF depth = 0
        THEN leafF(getValue(t))
        ELSE IF isBranch(t)
               THEN branchF(getValue(t),
                            [i \in DOMAIN getBranchForest(t) |->
                               pairWithFirst(depth - 1, getBranchForest(t)[i])])
               ELSE leafF(getValue(t))

\* As cropDepthUnfold below, but every budget of 1 or less makes a leaf.
cropDepthUnfoldUpToOne(seed) ==
  LET depth == seed[1]
      t == seed[2]
  IN  IF depth <= 1
        THEN leafF(getValue(t))
        ELSE IF isBranch(t)
               THEN branchF(getValue(t),
                            [i \in DOMAIN getBranchForest(t) |->
                               pairWithFirst(depth - 1, getBranchForest(t)[i])])
               ELSE leafF(getValue(t))

cropDepthUnfold(seed) ==
  LET depth == seed[1]
      t == seed[2]
  IN  IF depth = 1
        THEN leafF(getValue(t))
        ELSE IF isBranch(t)
               THEN branchF(getValue(t),
                            [i \in DOMAIN getBranchForest(t) |->
                               pairWithFirst(depth - 1, getBranchForest(t)[i])])
               ELSE leafF(getValue(t))

\* treeAna(cropDepthUnfold).
RECURSIVE cropDepthAna(_)
cropDepthAna(seed) ==
  LET unfolded == cropDepthUnfold(seed)
  IN  IF isBranchF(unfolded)
        THEN fixTree(branchF(unfolded.node,
                             [i \in DOMAIN unfolded.forest |->
                                cropDepthAna(unfolded.forest[i])]))
        ELSE fixTree(unfolded)

cropDepth(depth, t) == cropDepthAna(pairWithFirst(depth, t))

\* Option: none is the empty list, some(x) the list of x alone.
none == <<>>

some(x) == <<x>>

\* transpose of a list of lists of unequal lengths: row j holds, for every
\* list in order, some(its j-th element) or none where it has none.
transpose(xss) ==
  LET longest == maxAll([i \in DOMAIN xss |-> Len(xss[i])])
  IN  [j \in 1..longest |->
         [i \in DOMAIN xss |-> IF j <= Len(xss[i]) THEN some(xss[i][j]) ELSE none]]

\* Array.flatten: the lists of a list of lists, one after the other.
RECURSIVE flattenArray(_)
flattenArray(xss) ==
  IF xss = <<>> THEN <<>> ELSE Head(xss) \o flattenArray(Tail(xss))

\* Array.getSomes: the values of the options that hold one, in order.
getSomes(options) == flattenArray(options)

\* As levelsFold below, but the rows of the children are not aligned: the
\* rows of each child follow those of the child before it.
levelsFoldNoTranspose(treeFSelf) ==
  IF isBranchF(treeFSelf)
    THEN <<<<treeFSelf.node>>>> \o flattenArray(treeFSelf.forest)
    ELSE <<<<treeFSelf.node>>>>

levelsFold(treeFSelf) ==
  IF isBranchF(treeFSelf)
    THEN <<<<treeFSelf.node>>>>
           \o [j \in DOMAIN transpose(treeFSelf.forest) |->
                 flattenArray(getSomes(transpose(treeFSelf.forest)[j]))]
    ELSE <<<<treeFSelf.node>>>>

\* levels = treeCata(levelsFold).
RECURSIVE levels(_)
levels(t) ==
  levelsFold(IF isBranch(t)
               THEN branchF(getValue(t),
                            [i \in DOMAIN getBranchForest(t) |->
                               levels(getBranchForest(t)[i])])
               ELSE leafF(getValue(t)))

\* The depths given to cropDepth.
Depths == (-1)..(MaxNodes + 1)

AnnotateDepth == op = "annotateDepth" /\ Applied(annotateDepth(self))

CropDepth == op = "cropDepth" /\ Applied(cropDepth(arg, self))

Levels == op = "levels" /\ Applied(levels(self))

InitLevels ==
  /\ op \in {"annotateDepth", "cropDepth", "levels"}
  /\ self \in Trees
  /\ arg \in (IF op = "cropDepth" THEN Depths ELSE {0})
  /\ stack = <<>>
  /\ vals = <<>>
  /\ called = <<>>
  /\ exit = "running"
  /\ result = <<>>

NextLevels == AnnotateDepth \/ CropDepth \/ Levels

SpecLevels == InitLevels /\ [][NextLevels]_vars

(***************************************************************************)
(* Claims about the levels.                                                *)
(***************************************************************************)
\* The tree r has the shape of t, and every node of r holds the value of
\* the node of t at its position paired with root plus its number of hops
\* from the root.
AnnotatedFrom(root, t, r) ==
  /\ Positions(r) = Positions(t)
  /\ \A p \in Positions(t) :
       getValue(SubtreeAt(r, p)) = <<getValue(SubtreeAt(t, p)), root + Len(p)>>

\* C16: annotateDepth(t) has the shape of t and pairs every node value
\* with its hop count from the root: the root with 0, every child with the
\* number of its parent plus 1.
C16_DepthFromZero ==
  (op = "annotateDepth" /\ exit = "success") => AnnotatedFrom(0, self, result[1])

Min(a, b) == IF a <= b THEN a ELSE b

\* C17: for d >= 1, cropDepth(d)(t) keeps exactly the nodes of t on the
\* levels 1..d (the root on level 1) with their values and positions, the
\* nodes on level d as leaves; its height is min(d, height of t), and it is
\* t when d is at least the height of t.
C17_CropKeepsLevels ==
  (op = "cropDepth" /\ exit = "success" /\ arg >= 1) =>
    LET r == result[1]
    IN  /\ Positions(r) = {p \in Positions(self) : Len(p) + 1 <= arg}
        /\ \A p \in Positions(r) :
             /\ getValue(SubtreeAt(r, p)) = getValue(SubtreeAt(self, p))
             /\ Len(p) + 1 = arg => isLeaf(SubtreeAt(r, p))
        /\ maximumNodeHeight(r) = Min(arg, maximumNodeHeight(self))
        /\ arg >= maximumNodeHeight(self) => r = self

\* A tree of height 3 or more has been cropped to depth 2, a branch of the
\* second level becoming a leaf.
C17_Witness ==
  /\ op = "cropDepth"
  /\ exit = "success"
  /\ arg = 2
  /\ <<1, 1>> \in Positions(self)
  /\ isLeaf(SubtreeAt(result[1], <<1>>))
  /\ Len(getBranchForest(self)) = 2

\* The nodes of t at i hops from the root.
PositionsAt(t, i) == {p \in Positions(t) : Len(p) = i}

\* The place of the node at p among the nodes of its level, from the left.
RankAt(t, p) == 1 + Cardinality({q \in PositionsAt(t, Len(p)) : LeftOf(q, p)})

\* C18: the i-th row of levels(t), counting from 0, is the list of the
\* values of the nodes at i hops from the root, from left to right; there
\* are as many rows as the height of t, no row is empty, and the rows hold
\* as many values as t has nodes.
C18_LevelsByDepth ==
  (op = "levels" /\ exit = "success") =>
    LET r == result[1]
    IN  /\ Len(r) = maximumNodeHeight(self)
        /\ \A i \in DOMAIN r :
             /\ Len(r[i]) >= 1
             /\ Len(r[i]) = Cardinality(PositionsAt(self, i - 1))
             /\ \A p \in PositionsAt(self, i - 1) :
                  r[i][RankAt(self, p)] = getValue(SubtreeAt(self, p))
        /\ sumAll([i \in DOMAIN r |-> Len(r[i])]) = nodeCount(self)
        /\ \A p \in Positions(self) : Len(p) + 1 \in DOMAIN r

\* The levels of a tree whose first child is deeper than its second have
\* been listed.
C18_Witness ==
  /\ op = "levels"
  /\ exit = "success"
  /\ isBranch(self)
  /\ Len(getBranchForest(self)) = 2
  /\ isBranch(getBranchForest(self)[1])
  /\ Len(result[1]) = 3
  /\ Len(result[1][2]) = 2

(***************************************************************************)
(* Zip: src/ops/zip.                                                       *)
(***************************************************************************)
\* Array.unzip: the list of the first and the list of the second elements.
unzipArray(pairs) ==
  <<[i \in DOMAIN pairs |-> pairs[i][1]], [i \in DOMAIN pairs |-> pairs[i][2]]>>

\* As unzipFold below, but both branches are given the children of the
\* first.
unzipFoldFirstForest(treeFSelf) ==
  IF isBranchF(treeFSelf)
    THEN LET nodesA == unzipArray(treeFSelf.forest)[1]
         IN  <<fixTree(branchF(treeFSelf.node[1], nodesA)),
               fixTree(branchF(treeFSelf.node[2], nodesA))>>
    ELSE <<fixTree(leafF(treeFSelf.node[1])), fixTree(leafF(treeFSelf.node[2]))>>

unzipFold(treeFSelf) ==
  IF isBranchF(treeFSelf)
    THEN LET nodesA == unzipArray(treeFSelf.forest)[1]
             nodesB == unzipArray(treeFSelf.forest)[2]
         IN  <<fixTree(branchF(treeFSelf.node[1], nodesA)),
               fixTree(branchF(treeFSelf.node[2], nodesB))>>
    ELSE <<fixTree(leafF(treeFSelf.node[1])), fixTree(leafF(treeFSelf.node[2]))>>

\* unzip = treeCata(unzipFold).
RECURSIVE unzip(_)
unzip(t) ==
  unzipFold(IF isBranch(t)
              THEN branchF(getValue(t),
                           [i \in DOMAIN getBranchForest(t) |->
                              unzip(getBranchForest(t)[i])])
              ELSE leafF(getValue(t)))

\* As zipWithEffect below, but the children are paired as leaves.
zipWithEffectShallow(f, t, that) ==
  LET value == f[<<getValue(t), getValue(that)>>]
  IN  IF isLeaf(t) \/ isLeaf(that)
        THEN succeed(leaf(value))
        ELSE succeed(
               tree(value,
                    [i \in DOMAIN zipArrays(getBranchForest(t), getBranchForest(that)) |->
                       leaf(f[<<getValue(getBranchForest(t)[i]),
                                getValue(getBranchForest(that)[i])>>])]))

\* Effect.forEach(zip) over the zipped forests, then tree.flipped(value).
RECURSIVE zipWithEffect(_, _, _)
zipWithEffect(f, t, that) ==
  LET value == f[<<getValue(t), getValue(that)>>]
  IN  IF isLeaf(t)
        THEN succeed(leaf(value))
        ELSE IF isLeaf(that)
               THEN succeed(leaf(value))
               ELSE LET selfForest == getBranchForest(t)
                        thatForest == getBranchForest(that)
                        zipped ==
                          forEachExit(
                            [i \in DOMAIN zipArrays(selfForest, thatForest) |->
                               zipWithEffect(f, selfForest[i], thatForest[i])])
                    IN  succeed(tree(value, zipped.value))

\* Effect.runSync of zipWithEffect, which never fails.
zipWith(t, that, f) == zipWithEffect(f, t, that).value

zip(t, that) == zipWith(t, that, [p \in Values \X Values |-> <<p[1], p[2]>>])

\* The trees of pairs given to unzip.
PairTrees == TreesUpTo(Values \X Values, MaxPureNodes)

Zip == op = "zip" /\ Applied(zip(self, arg))

Unzip == op = "unzip" /\ Applied(unzip(self))

InitZip ==
  /\ op \in {"zip", "unzip"}
  /\ \/ op = "zip" /\ self \in Trees /\ arg \in PureTrees
     \/ op = "unzip" /\ self \in PairTrees /\ arg = 0
  /\ stack = <<>>
  /\ vals = <<>>
  /\ called = <<>>
  /\ exit = "running"
  /\ result = <<>>

NextZip == Zip \/ Unzip

SpecZip == InitZip /\ [][NextZip]_vars

(***************************************************************************)
(* Claims about zip and unzip.                                             *)
(***************************************************************************)
\* C19: zip(self, that) holds [getValue(self), getValue(that)] at its
\* root; it is a leaf if either tree is a leaf; if both are branches its
\* children are the zips of the i-th children of both, in order, for i up
\* to the smaller number of children; so its shape is the intersection of
\* the two shapes, a pair of values at every position.
C19_ZipCropsToIntersection ==
  (op = "zip" /\ exit = "success") =>
    LET r == result[1]
    IN  /\ getValue(r) = <<getValue(self), getValue(arg)>>
        /\ (isLeaf(self) \/ isLeaf(arg)) => isLeaf(r)
        /\ (isBranch(self) /\ isBranch(arg)) =>
             /\ isBranch(r)
             /\ Len(getBranchForest(r)) =
                  Min(Len(getBranchForest(self)), Len(getBranchForest(arg)))
             /\ \A i \in DOMAIN getBranchForest(r) :
                  getBranchForest(r)[i] =
                    zip(getBranchForest(self)[i], getBranchForest(arg)[i])
        /\ Positions(r) = Positions(self) \cap Positions(arg)
        /\ \A p \in Positions(r) :
             getValue(SubtreeAt(r, p)) =
               <<getValue(SubtreeAt(self, p)), getValue(SubtreeAt(arg, p))>>

\* Two branches with grandchildren and different numbers of children have
\* been zipped.
C19_Witness ==
  /\ op = "zip"
  /\ exit = "success"
  /\ isBranch(self) /\ isBranch(arg)
  /\ Len(getBranchForest(self)) = 2
  /\ Len(getBranchForest(arg)) = 1
  /\ <<1, 1>> \in Positions(result[1])

\* C20: unzip(t) gives two trees of the shape of t whose zip is t, and
\* unzip(zip(a, b)) = [a, b] for trees a and b of the same shape.
C20_UnzipInvertsZip ==
  /\ (op = "unzip" /\ exit = "success") =>
       LET r == result[1]
       IN  /\ Positions(r[1]) = Positions(self)
           /\ Positions(r[2]) = Positions(self)
           /\ zip(r[1], r[2]) = self
  /\ (op = "zip" /\ exit = "success" /\ Positions(self) = Positions(arg)) =>
       unzip(result[1]) = <<self, arg>>

\* A tree of pairs with a grandchild, the two values of a pair different at
\* the root and below it, has been unzipped into two different trees.
C20_Witness ==
  /\ op = "unzip"
  /\ exit = "success"
  /\ <<1, 1>> \in Positions(self)
  /\ getValue(self) = <<0, 1>>
  /\ getValue(SubtreeAt(self, <<1, 1>>)) = <<1, 0>>
  /\ result[1][1] # result[1][2]

(***************************************************************************)
(* Further claims about the order.                                         *)
(***************************************************************************)
\* C29: getOrder puts every leaf before every branch whatever their
\* values: a leaf compared with a branch gives -1 and the branch compared
\* with the leaf gives 1, also when the value of the leaf is the greater.
C29_LeafBeforeBranch ==
  (op = "Order" /\ exit = "success") =>
    \A x, y \in Names :
      (isLeaf(Named(x)) /\ isBranch(Named(y))) =>
        /\ result[1][<<x, y>>] = -1
        /\ result[1][<<y, x>>] = 1

\* A leaf has been ordered before a branch whose value the element order
\* puts before the value of the leaf.
C29_Witness ==
  /\ op = "Order"
  /\ exit = "success"
  /\ isLeaf(self) /\ isBranch(arg.that)
  /\ arg.orderA[<<getValue(self), getValue(arg.that)>>] = 1
  /\ result[1][<<"self", "that">>] = -1
  /\ result[1][<<"that", "self">>] = 1

FailsAt(p) == getValue(SubtreeAt(self, p)) \in arg.failsOn

\* C28: in mapEffect and mapEffect.pre a failure of f is the last
\* execution of f: every node executed before it succeeded and comes
\* before it in the order of the traversal, no later node is executed, the
\* run ends as that failure and returns no tree, and in post-order no
\* ancestor of the failed node is ever executed.
C28_FailureEndsTheMapping ==
  op \in MapOps =>
    /\ \A i \in DOMAIN called :
         /\ called[i].ok <=> ~FailsAt(called[i].path)
         /\ ~called[i].ok =>
              /\ i = Len(called)
              /\ exit = "failure"
              /\ stack = <<>> /\ vals = <<>>
              /\ op = "mapEffect" =>
                   \A q \in Positions(self) :
                     IsProperPrefix(q, called[i].path) => q \notin CalledPaths
    /\ IF op = "mapEffect" THEN CalledInPostOrder ELSE CalledInPreOrder
    /\ exit = "failure" => (called # <<>> /\ ~called[Len(called)].ok)
    /\ exit = "success" => \A q \in Positions(self) : ~FailsAt(q)
    /\ Len(result) = 1 =>
         result[1] = (IF exit = "failure" THEN fail("e")
                        ELSE succeed(mapEffectValue(self, arg.fn)))

\* A post-order mapping has failed at the first child of the root after
\* the child of that child succeeded: the second child of the root and the
\* root were not executed, and the caller received the failure.
C28_Witness ==
  /\ op = "mapEffect"
  /\ Len(result) = 1
  /\ result[1] = fail("e")
  /\ Len(called) = 2
  /\ called[1].path = <<1, 1>> /\ called[1].ok
  /\ called[2].path = <<1>> /\ ~called[2].ok
  /\ <<2>> \in Positions(self)
  /\ FailsAt(<<2>>)

(***************************************************************************)
(* Covariant: map applied to a tree and a function.                        *)
(***************************************************************************)
Map == op = "map" /\ Applied(map(self, arg.f))

InitCovariant ==
  /\ op \in {"map"}
  /\ self \in Trees
  /\ arg \in [f : Fns, g : Fns]
  /\ stack = <<>>
  /\ vals = <<>>
  /\ called = <<>>
  /\ exit = "running"
  /\ result = <<>>

NextCovariant == Map

SpecCovariant == InitCovariant /\ [][NextCovariant]_vars

\* C23: map(t, f) has the shape of t and holds at every position f of the
\* value t holds there; map(t, identity) = t and
\* map(map(t, f), g) = map(t, a => g(f(a))).
C23_MapKeepsShape ==
  (op = "map" /\ exit = "success") =>
    LET r == result[1]
    IN  /\ Positions(r) = Positions(self)
        /\ \A p \in Positions(self) :
             /\ getValue(SubtreeAt(r, p)) = arg.f[getValue(SubtreeAt(self, p))]
             /\ isBranch(SubtreeAt(r, p)) <=> isBranch(SubtreeAt(self, p))
        /\ map(self, [a \in Values |-> a]) = self
        /\ map(r, arg.g) = map(self, [a \in Values |-> arg.g[arg.f[a]]])

\* A tree with a grandchild and two children holding different values has
\* been mapped with a function that exchanges the values.
C23_Witness ==
  /\ op = "map"
  /\ exit = "success"
  /\ <<1, 1>> \in Positions(self)
  /\ <<2>> \in Positions(self)
  /\ getValue(SubtreeAt(self, <<1>>)) # getValue(SubtreeAt(self, <<2>>))
  /\ arg.f = [a \in Values |-> 1 - a]
  /\ result[1] # self

(***************************************************************************)
(* Foldable: src/instances/Foldable.  A reducer, and the combine of a      *)
(* monoid, is named; values are numbers, booleans or lists as it needs.    *)
(***************************************************************************)
\* reducer(previous, current).
reducer(name, previous, current) ==
  CASE name = "append" -> Append(previous, current)
    [] name = "double" -> 2 * previous + current
    [] name = "MonoidEvery" -> previous /\ current
    [] name = "MonoidSome" -> previous \/ current
    [] name = "MonoidXor" -> previous # current
    [] name = "MonoidEqv" -> previous = current
    [] name = "MonoidConcat" -> previous \o current

\* M.empty.
empty(M) ==
  CASE M = "MonoidEvery" -> TRUE
    [] M = "MonoidSome" -> FALSE
    [] M = "MonoidXor" -> FALSE
    [] M = "MonoidEqv" -> TRUE
    [] M = "MonoidConcat" -> <<>>

\* Array.reduce(xs, b, f): f threaded through xs from the left.
RECURSIVE arrayReduce(_, _, _)
arrayReduce(xs, b, f) ==
  IF xs = <<>> THEN b ELSE arrayReduce(Tail(xs), reducer(f, b, Head(xs)), f)

\* As reduceEffect below, but the value of a branch is reduced after its
\* forest.
RECURSIVE reduceEffectForestFirst(_, _, _), reduceForestFirst(_, _, _)
reduceEffectForestFirst(f, t, initial) ==
  IF isBranch(t)
    THEN reducer(f, reduceForestFirst(f, getBranchForest(t), initial), getValue(t))
    ELSE reducer(f, initial, getValue(t))

reduceForestFirst(f, forest, initial) ==
  IF forest = <<>>
    THEN initial
    ELSE reduceForestFirst(f, Tail(forest),
                           reduceEffectForestFirst(f, Head(forest), initial))

\* reduceEffect(reducer, self)(initial), run: the value of the node is
\* reduced first, and Array.reduce threads the result through the trees of
\* the forest from the left, each by reduceEffect itself.
RECURSIVE reduceEffect(_, _, _), reduceForest(_, _, _)
reduceEffect(f, t, initial) ==
  IF isBranch(t)
    THEN reduceForest(f, getBranchForest(t), reducer(f, initial, getValue(t)))
    ELSE reducer(f, initial, getValue(t))

reduceForest(f, forest, initial) ==
  IF forest = <<>>
    THEN initial
    ELSE reduceForest(f, Tail(forest), reduceEffect(f, Head(forest), initial))

reduce(t, initial, f) == reduceEffect(f, t, initial)

\* As monoidFold below, but the value of a branch is combined after its
\* folded forest.
monoidFoldForestFirst(M, treeFSelf) ==
  IF isBranchF(treeFSelf)
    THEN reducer(M, arrayReduce(treeFSelf.forest, empty(M), M), treeFSelf.node)
    ELSE reducer(M, empty(M), treeFSelf.node)

monoidFold(M, treeFSelf) ==
  IF isBranchF(treeFSelf)
    THEN arrayReduce(treeFSelf.forest, reducer(M, empty(M), treeFSelf.node), M)
    ELSE reducer(M, empty(M), treeFSelf.node)

\* foldMap(M) = treeCata(monoidFold(M)).
RECURSIVE foldMap(_, _)
foldMap(M, t) ==
  monoidFold(M, IF isBranch(t)
                  THEN branchF(getValue(t),
                               [i \in DOMAIN getBranchForest(t) |->
                                  foldMap(M, getBranchForest(t)[i])])
                  ELSE leafF(getValue(t)))

every(t) == foldMap("MonoidEvery", t)

\* some of the Foldable (the name some is the Option above).
someFoldable(t) == foldMap("MonoidSome", t)

xor(t) == foldMap("MonoidXor", t)

eqv(t) == foldMap("MonoidEqv", t)

\* The reducers given to reduce with the initial values they are given.
Reducers ==
  [reducer : {"append"}, initial : {<<>>, <<1>>}]
    \cup [reducer : {"double"}, initial : {0, 1}]

BooleanMonoids == {"MonoidEvery", "MonoidSome", "MonoidXor", "MonoidEqv"}

Monoids == BooleanMonoids \cup {"MonoidConcat"}

\* The trees over the values of the monoid M.
TreesOver(M) ==
  IF M \in BooleanMonoids
    THEN TreesUpTo(BOOLEAN, MaxNodes)
    ELSE TreesUpTo({<<0>>, <<1>>}, MaxNodes)

Reduce == op = "reduce" /\ Applied(reduce(self, arg.initial, arg.reducer))

FoldMap ==
  /\ op = "foldMap"
  /\ Applied(CASE arg = "MonoidEvery" -> every(self)
               [] arg = "MonoidSome" -> someFoldable(self)
               [] arg = "MonoidXor" -> xor(self)
               [] arg = "MonoidEqv" -> eqv(self)
               [] OTHER -> foldMap(arg, self))

InitFoldable ==
  /\ op \in {"reduce", "foldMap"}
  /\ \/ op = "reduce" /\ self \in Trees /\ arg \in Reducers
     \/ op = "foldMap" /\ arg \in Monoids /\ self \in TreesOver(arg)
  /\ stack = <<>>
  /\ vals = <<>>
  /\ called = <<>>
  /\ exit = "running"
  /\ result = <<>>

NextFoldable == Reduce \/ FoldMap

SpecFoldable == InitFoldable /\ [][NextFoldable]_vars

(***************************************************************************)
(* Claims about the Foldable.                                              *)
(***************************************************************************)
\* The place of the node at p in the depth-first pre-order of t: after its
\* ancestors and the subtrees of the earlier siblings on its path.
PreOrderRank(t, p) ==
  1 + Cardinality({q \in Positions(t) : IsProperPrefix(q, p) \/ LeftOf(q, p)})

\* The values of t in depth-first pre-order.
PreOrderValues(t) ==
  [k \in 1..NodesOf(t) |->
     getValue(SubtreeAt(t, CHOOSE p \in Positions(t) : PreOrderRank(t, p) = k))]

\* C21: reduce threads the accumulator through the values in depth-first
\* pre-order, a node before its descendants, children left to right, once
\* per node: it equals the reducer threaded through the pre-order list of
\* the values, and with list-append it yields that list after the initial
\* one.
C21_ReduceInPreOrder ==
  (op = "reduce" /\ exit = "success") =>
    /\ result[1] = arrayReduce(PreOrderValues(self), arg.initial, arg.reducer)
    /\ arg.reducer = "append" =>
         /\ result[1] = arg.initial \o PreOrderValues(self)
         /\ Len(result[1]) = Len(arg.initial) + NodesOf(self)

\* A tree whose pre-order and post-order lists of values differ, with a
\* grandchild before a second child, has been reduced with list-append.
C21_Witness ==
  /\ op = "reduce"
  /\ exit = "success"
  /\ arg.reducer = "append"
  /\ arg.initial = <<>>
  /\ <<1, 1>> \in Positions(self)
  /\ <<2>> \in Positions(self)
  /\ result[1] = <<0, 1, 0, 1>>

\* C22: foldMap(M)(t) is the M-combination of the values of t in
\* depth-first pre-order, which is reduce(t, M.empty, M.combine); every(t)
\* is true exactly when all values are true and some(t) exactly when at
\* least one is.
C22_FoldMapIsReduce ==
  (op = "foldMap" /\ exit = "success") =>
    /\ result[1] = arrayReduce(PreOrderValues(self), empty(arg), arg)
    /\ result[1] = reduce(self, empty(arg), arg)
    /\ arg = "MonoidEvery" =>
         (result[1] <=> \A p \in Positions(self) : getValue(SubtreeAt(self, p)))
    /\ arg = "MonoidSome" =>
         (result[1] <=> \E p \in Positions(self) : getValue(SubtreeAt(self, p)))

\* A tree with a grandchild and a second child has been folded with the
\* monoid of list concatenation into a list that is not the same read
\* backwards.
C22_Witness ==
  /\ op = "foldMap"
  /\ exit = "success"
  /\ arg = "MonoidConcat"
  /\ <<1, 1>> \in Positions(self)
  /\ <<2>> \in Positions(self)
  /\ result[1] = <<0, 0, 1, 1>>

(***************************************************************************)
(* The constructors of branches, given a value and a list of children that *)
(* may be empty: the code holds no check of the list, so both return.      *)
(***************************************************************************)
\* The lists of children given to the constructors.
Forests == {<<>>} \cup UNION {ForestsOfSize(Values, m) : m \in 1..MaxPureNodes}

BranchF == op = "branchF" /\ Applied(branchF(arg.value, arg.forest))

Branch == op = "branch" /\ Applied(branch(arg.value, arg.forest))

InitConstruct ==
  /\ op \in {"branchF", "branch"}
  /\ self = 0
  /\ arg \in [value : Values, forest : Forests]
  /\ stack = <<>>
  /\ vals = <<>>
  /\ called = <<>>
  /\ exit = "running"
  /\ result = <<>>

NextConstruct == BranchF \/ Branch

SpecConstruct == InitConstruct /\ [][NextConstruct]_vars

\* C24: branchF, and branch built on it, never return a TreeF that has a
\* forest field holding an empty list: given an empty forest they fail.
C24_NoEmptyForest ==
  (op \in {"branchF", "branch"} /\ exit = "success") =>
    LET returned == IF op = "branch" THEN unfixTree(result[1]) ELSE result[1]
    IN  /\ arg.forest # <<>>
        /\ ~("forest" \in DOMAIN returned /\ returned.forest = <<>>)

(***************************************************************************)
(* Trees built by sequences of constructors and operations.  self is the   *)
(* tree built so far, op the operation that returned it, called the        *)
(* operation before that, arg the forest a constructor was given, and vals *)
(* names the type of the node values of self: "A" for a value, "AA" for a  *)
(* pair of values, "AN" for a value and a number, "N" for a number.        *)
(***************************************************************************)
setValue(value, treeFSelf) ==
  IF isBranchF(treeFSelf) THEN branchF(value, treeFSelf.forest) ELSE leafF(value)

setForest(forest, treeFSelf) == treeF(treeFSelf.node, forest)

growLeavesFold(grow, treeFSelf) ==
  IF isBranchF(treeFSelf) THEN fixTree(treeFSelf) ELSE grow[treeFSelf.node]

\* growLeaves(grow) = treeCata(growLeavesFold(grow)).
RECURSIVE growLeaves(_, _)
growLeaves(grow, t) ==
  growLeavesFold(grow,
                 IF isBranch(t)
                   THEN branchF(getValue(t),
                                [i \in DOMAIN getBranchForest(t) |->
                                   growLeaves(grow, getBranchForest(t)[i])])
                   ELSE leafF(getValue(t)))

\* The number of nodes of a tree, whatever its node values.
RECURSIVE Size(_)
Size(t) ==
  IF "forest" \in DOMAIN unfixTree(t)
    THEN 1 + sumAll([i \in DOMAIN unfixTree(t).forest |-> Size(unfixTree(t).forest[i])])
    ELSE 1

\* The forests a constructor is given: none, or the tree built so far
\* alone or beside a leaf.
ForestsFrom(t) == {<<>>, <<t>>, <<t, leaf(0)>>, <<leaf(1), t>>}

\* The operation o, given the forest, has returned the tree t with node
\* values of the type named.
Returns(o, forest, t, type) ==
  /\ Size(t) <= MaxNodes
  /\ op' = o
  /\ arg' = forest
  /\ self' = t
  /\ vals' = <<type>>
  /\ called' = <<op>>
  /\ UNCHANGED <<stack, exit, result>>

LeafStep ==
  /\ exit = "success"
  /\ \E value \in Values : Returns("leaf", <<>>, leaf(value), "A")

TreeStep ==
  /\ vals = <<"A">>
  /\ \E value \in Values : \E forest \in ForestsFrom(self) :
       Returns("tree", forest, tree(value, forest), "A")

TreeFStep ==
  /\ vals = <<"A">>
  /\ \E value \in Values : \E forest \in ForestsFrom(self) :
       Returns("treeF", forest, fixTree(treeF(value, forest)), "A")

BranchStep ==
  /\ vals = <<"A">>
  /\ \E value \in Values : \E forest \in ForestsFrom(self) \ {<<>>} :
       Returns("branch", forest, branch(value, forest), "A")

SetValueStep ==
  /\ vals = <<"A">>
  /\ \E value \in Values :
       Returns("setValue", <<>>, fixTree(setValue(value, unfixTree(self))), "A")

SetForestStep ==
  /\ vals = <<"A">>
  /\ \E forest \in ForestsFrom(leaf(0)) \ {<<>>} :
       Returns("setForest", forest, fixTree(setForest(forest, unfixTree(self))), "A")

MapStep ==
  /\ vals = <<"A">>
  /\ \E f \in Fns : Returns("map", <<>>, map(self, f), "A")

FlatMapStep ==
  /\ vals = <<"A">>
  /\ \E f \in SmallTreeFns : Returns("flatMap", <<>>, flatMap(self, f), "A")

GrowLeavesStep ==
  /\ vals = <<"A">>
  /\ \E grow \in SmallTreeFns : Returns("growLeaves", <<>>, growLeaves(grow, self), "A")

ZipStep ==
  /\ vals = <<"A">>
  /\ \E that \in TreesUpTo(Values, 2) \cup {self, branch(0, <<leaf(0), leaf(1)>>)} :
       Returns("zip", <<>>, zip(self, that), "AA")

AnnotateDepthStep ==
  /\ vals = <<"A">>
  /\ Returns("annotateDepth", <<>>, annotateDepth(self), "AN")

UnzipStep ==
  /\ vals \in {<<"AA">>, <<"AN">>}
  /\ \/ Returns("unzip", <<>>, unzip(self)[1], "A")
     \/ Returns("unzip", <<>>, unzip(self)[2], IF vals = <<"AA">> THEN "A" ELSE "N")

CropDepthStep ==
  /\ vals \in {<<"A">>, <<"AA">>, <<"AN">>, <<"N">>}
  /\ \E depth \in Depths :
       Returns("cropDepth", <<>>, cropDepth(depth, self), vals[1])

InitWellFormed ==
  /\ op = "leaf"
  /\ self \in {leaf(value) : value \in Values}
  /\ arg = <<>>
  /\ stack = <<>>
  /\ vals = <<"A">>
  /\ called = <<"leaf">>
  /\ exit = "success"
  /\ result = <<>>

NextWellFormed ==
  \/ LeafStep
  \/ TreeStep
  \/ TreeFStep
  \/ BranchStep
  \/ SetValueStep
  \/ SetForestStep
  \/ MapStep
  \/ FlatMapStep
  \/ GrowLeavesStep
  \/ ZipStep
  \/ AnnotateDepthStep
  \/ UnzipStep
  \/ CropDepthStep

SpecWellFormed == InitWellFormed /\ [][NextWellFormed]_vars

\* At every node of t the forest is absent or a non-empty list, so that
\* exactly one of isLeaf and isBranch holds of the node, a branch having
\* children and a leaf none.
RECURSIVE WellFormed(_)
WellFormed(t) ==
  /\ isLeaf(t) # isBranch(t)
  /\ isLeaf(t) => ~("forest" \in DOMAIN unfixTree(t))
  /\ isBranch(t) =>
       /\ Len(unfixTree(t).forest) > 0
       /\ \A i \in DOMAIN unfixTree(t).forest : WellFormed(unfixTree(t).forest[i])

\* C25: every tree built by a sequence of the constructors and operations
\* from well-formed inputs is well-formed: at every node the forest is
\* absent or non-empty, isLeaf and isBranch exclude each other and one of
\* them holds, and tree(value, []) and treeF(value, []) are leaves.
C25_TreesStayWellFormed ==
  /\ WellFormed(self)
  /\ (op \in {"tree", "treeF"} /\ arg = <<>>) => isLeaf(self)
  /\ (op \in {"tree", "treeF", "branch", "setForest"} /\ arg # <<>>) =>
       (isBranch(self) /\ Len(getBranchForest(self)) = Len(arg))

\* tree(value, []) has returned a leaf after a tree had been built by
\* growing leaves.
C25_Witness ==
  /\ op = "tree"
  /\ arg = <<>>
  /\ called = <<"growLeaves">>
  /\ isLeaf(self)


(***************************************************************************)
(* The options of the generation of arbitrary trees.  A field of the       *)
(* options given is <<>> when undefined and <<v>> when defined as v.  A    *)
(* branchBias is a number of quarters: BiasUnit stands for the ratio 1.    *)
(***************************************************************************)
BiasUnit == 4

defaultOptions ==
  [maxChildren |-> 5, branchBias |-> 1, onlyBranches |-> FALSE, maxDepth |-> 3]

\* {...defaultOptions, ...Record.filterDefined(options)}: a defined field of
\* the options replaces the default.
withDefaults(options) ==
  [k \in DOMAIN defaultOptions |->
     IF options[k] # <<>> THEN options[k][1] ELSE defaultOptions[k]]

\* The outcome of normalizeOptions: the exit and the options returned or the
\* message of the error thrown.
normalizeOptions(options) ==
  LET final == withDefaults(options)
      onlyBranches == options.onlyBranches # <<>> /\ options.onlyBranches[1]
  IN  IF onlyBranches /\ final.maxDepth = 0
      THEN [exit |-> "failure", value |-> "Cannot create a branch at maxDepth=0"]
      ELSE IF final.branchBias < 0 \/ final.branchBias >= BiasUnit
      THEN [exit |-> "failure", value |-> "Out-of-bounds branchBias"]
      ELSE IF final.maxChildren <= 0
      THEN [exit |-> "failure", value |-> "Out-of-bounds maxChildren"]
      ELSE [exit |-> "success", value |-> final]

\* The options given: each field undefined or defined, with a branchBias
\* from below 0 to above 1 and a maxChildren from below 0.
PartialOptions ==
  [maxChildren : {<<>>, <<-1>>, <<0>>, <<1>>},
   branchBias : {<<>>} \cup {<<b>> : b \in (-1)..(BiasUnit + 1)},
   onlyBranches : {<<>>, <<TRUE>>, <<FALSE>>},
   maxDepth : {<<>>, <<0>>, <<1>>}]

NormalizeOptions ==
  /\ op = "normalizeOptions"
  /\ exit = "running"
  /\ LET outcome == normalizeOptions(arg)
     IN  /\ exit' = outcome.exit
         /\ result' = <<outcome.value>>
  /\ UNCHANGED <<op, self, arg, stack, vals, called>>

InitOptions ==
  /\ op = "normalizeOptions"
  /\ self = 0
  /\ arg \in PartialOptions
  /\ stack = <<>>
  /\ vals = <<>>
  /\ called = <<>>
  /\ exit = "running"
  /\ result = <<>>

NextOptions == NormalizeOptions

SpecOptions == InitOptions /\ [][NextOptions]_vars

\* C27: normalizeOptions returns the options with the defaults filled in for
\* every branchBias from 0 to 1, both included, and throws the out-of-bounds
\* error for every other branchBias; it throws as well for a maxChildren of
\* 0 or less and for onlyBranches with a maxDepth of 0.
C27_BiasFromZeroToOneAccepted ==
  (op = "normalizeOptions" /\ exit # "running") =>
    LET final == withDefaults(arg)
        biasInRange == 0 <= final.branchBias /\ final.branchBias <= BiasUnit
        childrenInRange == final.maxChildren > 0
        branchAtZero == final.onlyBranches /\ final.maxDepth = 0
    IN  /\ (biasInRange /\ childrenInRange /\ ~branchAtZero) =>
             (exit = "success" /\ result = <<final>>)
        /\ ~biasInRange =>
             (exit = "failure" /\
              result[1] \in {"Out-of-bounds branchBias",
                             "Cannot create a branch at maxDepth=0"})
        /\ ~childrenInRange => exit = "failure"
        /\ branchAtZero =>
             (exit = "failure" /\
              result = <<"Cannot create a branch at maxDepth=0">>)


(***************************************************************************)
(* Level labels: src/ops/levels.  A string is the sequence of its          *)
(* characters, so that + is \o and a label can be taken apart again.       *)
(***************************************************************************)
DecimalDigits == <<"0", "1", "2", "3", "4", "5", "6", "7", "8", "9">>

\* Number.toString() of a number that is not negative.
RECURSIVE toString(_)
toString(n) ==
  IF n < 10
    THEN <<DecimalDigits[n + 1]>>
    ELSE toString(n \div 10) \o <<DecimalDigits[(n % 10) + 1]>>

\* Array.join(sep) of a list of strings.
RECURSIVE arrayJoin(_, _)
arrayJoin(xs, sep) ==
  IF xs = <<>> THEN <<>>
  ELSE IF Len(xs) = 1 THEN xs[1]
  ELSE xs[1] \o sep \o arrayJoin(Tail(xs), sep)

\* As annotateLevelLabelsUnfold below, but the children are numbered from 0.
annotateLevelLabelsUnfoldFromZero(seed) ==
  LET prefix == seed[1]
      t == seed[2]
      prefixValue(value) == arrayJoin(<<prefix, value>>, <<" ">>)
      prefixBranch(node, i) == <<prefix \o toString(i) \o <<".">>, node>>
  IN  IF isBranch(t)
        THEN branchF(prefixValue(getValue(t)),
                     [k \in DOMAIN getBranchForest(t) |->
                        prefixBranch(getBranchForest(t)[k], k - 1)])
        ELSE leafF(prefixValue(getValue(t)))

\* The seed is [prefix, tree]; the child at the 1-based k of the forest is
\* the one the code's Array.map hands to prefixBranch with i = k - 1.
annotateLevelLabelsUnfold(seed) ==
  LET prefix == seed[1]
      t == seed[2]
      prefixValue(value) == arrayJoin(<<prefix, value>>, <<" ">>)
      prefixBranch(node, i) == <<prefix \o toString(i + 1) \o <<".">>, node>>
  IN  IF isBranch(t)
        THEN branchF(prefixValue(getValue(t)),
                     [k \in DOMAIN getBranchForest(t) |->
                        prefixBranch(getBranchForest(t)[k], k - 1)])
        ELSE leafF(prefixValue(getValue(t)))

\* treeAna(annotateLevelLabelsUnfold).
RECURSIVE annotateLevelLabelsAna(_)
annotateLevelLabelsAna(seed) ==
  LET unfolded == annotateLevelLabelsUnfold(seed)
  IN  IF isBranchF(unfolded)
        THEN fixTree(branchF(unfolded.node,
                             [i \in DOMAIN unfolded.forest |->
                                annotateLevelLabelsAna(unfolded.forest[i])]))
        ELSE fixTree(unfolded)

addLevelLabels(t) == annotateLevelLabelsAna(<<<<"1", ".">>, t>>)

\* The values of the trees labelled: one of them reads as a path.
Strings == {<<"a">>, <<"1", ".">>}

StringTrees == TreesUpTo(Strings, MaxNodes)

AddLevelLabels == op = "addLevelLabels" /\ Applied(addLevelLabels(self))

InitLabels ==
  /\ op = "addLevelLabels"
  /\ self \in StringTrees
  /\ arg = 0
  /\ stack = <<>>
  /\ vals = <<>>
  /\ called = <<>>
  /\ exit = "running"
  /\ result = <<>>

NextLabels == AddLevelLabels

SpecLabels == InitLabels /\ [][NextLabels]_vars

\* The path of the node at p: "1." for the root, and the path of the parent,
\* the 1-based index among its siblings and "." for any other node.
RECURSIVE PathOf(_)
PathOf(p) ==
  IF p = <<>>
    THEN <<"1", ".">>
    ELSE PathOf(SubSeq(p, 1, Len(p) - 1)) \o toString(p[Len(p)]) \o <<".">>

\* The part of a label before its first space.
RECURSIVE PrefixOf(_)
PrefixOf(label) ==
  IF label = <<>> \/ Head(label) = " "
    THEN <<>>
    ELSE <<Head(label)>> \o PrefixOf(Tail(label))

\* C26: addLevelLabels returns a tree of the shape of its argument where the
\* value of each node is its path, a space and its value in the argument;
\* the path of the root is "1." and the path of the i-th child, counted from
\* 1, of a node of path p is p, i and "."; so the parts of the new values
\* before the space are the paths, and no two nodes share one.
C26_LabelsArePaths ==
  (op = "addLevelLabels" /\ exit = "success") =>
    /\ Positions(result[1]) = Positions(self)
    /\ \A p \in Positions(self) :
         /\ isLeaf(SubtreeAt(result[1], p)) <=> isLeaf(SubtreeAt(self, p))
         /\ getValue(SubtreeAt(result[1], p)) =
              PathOf(p) \o <<" ">> \o getValue(SubtreeAt(self, p))
         /\ PrefixOf(getValue(SubtreeAt(result[1], p))) = PathOf(p)
    /\ \A p, q \in Positions(self) :
         p # q => PrefixOf(getValue(SubtreeAt(result[1], p))) #
                    PrefixOf(getValue(SubtreeAt(result[1], q)))

\* The first child of the second child of the root, whose value reads as a
\* path, has been labelled "1.2.1. 1.".
C26_Witness ==
  /\ op = "addLevelLabels"
  /\ exit = "success"
  /\ <<2, 1>> \in Positions(self)
  /\ getValue(SubtreeAt(self, <<2, 1>>)) = <<"1", ".">>
  /\ getValue(SubtreeAt(result[1], <<2, 1>>)) =
       <<"1", ".", "2", ".", "1", ".", " ", "1", ".">>

====
